---- MODULE Spec2Model ----
(***************************************************************************)
(* GhostComms NoEU relay: the WebSocket relay (attachWs), the expiry job   *)
(* (cleanupExpiredEnvelopes) and the HTTP routes that touch the envelope   *)
(* and prekey tables.                                                      *)
(*                                                                         *)
(* Node runs every handler on one event loop: a handler runs without       *)
(* interruption from one `await` to the next.  Each action below is one    *)
(* such run: the database operation the handler was waiting for, followed  *)
(* by the synchronous code up to the next `await`.  Prisma semantics used: *)
(* update/delete of a missing row reject (P2025), updateMany/deleteMany    *)
(* never do.                                                               *)
(***************************************************************************)
EXTENDS Naturals, Integers, Sequences, FiniteSets, TLC

\* ------------------------------------------------------------ bounds
MaxConns == 3
MaxMsgs == 1
MaxTicks == 2
MaxInbox == 1
MaxRateMsgs == 52
MaxInflight == 1
MaxExpiryMsgs == 2
MaxFetch == 3
MaxSessionConns == 2
MaxClientConns == 7
MaxHttp == 2
MaxOtkList == 2
MaxOrderMsgs == 2
MaxBacklog == 101

\* ------------------------------------------------- program constants
MESSAGE_RATE_LIMIT == 50
RATE_WINDOW_MS == 60000
EPHEMERAL_TTL_MS == 86400000
BACKLOG_TAKE == 100
INBOX_TAKE == 200

\* ------------------------------------------------------ static tables
\* Rows of the User and Device tables the relay reads.
Users == {"uA", "uB"}
Devices == {"dA", "dB1", "dB2"}
DeviceUser(d) == IF d = "dA" THEN "uA" ELSE "uB"
UserName(u) == IF u = "uA" THEN "alice" ELSE "bob"

NoConn == 0
Conn == 1..MaxConns
NoSub == [uid |-> "", did |-> ""]
\* The claims a verified JWT decodes to.
Subs == {[uid |-> DeviceUser(d), did |-> d] : d \in Devices}
NoEntry == [count |-> 0, resetAt |-> 0]

VARIABLES
  now,          \* Date.now(), in ms
  ticks,        \* number of clock advances so far
  nConns,       \* sockets accepted so far
  readyState,   \* Conn -> "NONE" | "OPEN" | "CLOSING" | "CLOSED"
  sub,          \* Conn -> the token claims bound to the socket, or NoSub
  closeInfo,    \* Conn -> [code, reason] of a close the server started
  conns,        \* deviceId -> Conn or NoConn          (Map conns)
  userDevices,  \* userId -> set of deviceId           (Map userDevices)
  lastSeenAt,   \* deviceId -> ms                      (Device.lastSeenAt)
  store,        \* the Envelope table: a set of rows
  nextId,       \* next envelope id
  drain,        \* Conn -> the backlog replay started at connect
  msgs,         \* the message handlers started so far, in arrival order
  recv,         \* Conn -> frames written to the socket, in order
  wsRateLimits, \* deviceId -> RateLimitEntry or NoEntry
  inbox,        \* the GET /inbox/from/:username requests so far
  lastCleanup,  \* [at, count] of the last cleanupExpiredEnvelopes run
  otk,          \* the OneTimePrekey table: id -> [deviceId, used]
  fetch,        \* the GET /prekeys/:deviceId requests so far
  pingsOut,     \* Conn -> a ping was written and no pong has come back
  client,       \* the web client's thread screen (useThread)
  user,         \* the User table: a set of rows
  device,       \* the Device table: a set of rows
  http          \* the signup, login and device-removal requests so far

vars == <<now, ticks, nConns, readyState, sub, closeInfo, conns, userDevices,
          lastSeenAt, store, nextId, drain, msgs, recv, wsRateLimits, inbox,
          lastCleanup, otk, fetch, pingsOut, client, user, device, http>>
\* The state of the relay's sockets, envelopes and prekeys.
relayVars == <<now, ticks, nConns, readyState, sub, closeInfo, conns, userDevices,
               lastSeenAt, store, nextId, drain, msgs, recv, wsRateLimits, inbox,
               lastCleanup, otk, fetch>>

\* ------------------------------------------------------------ base64
\* A base64 text is a sequence of digit values 0..63, with 64 for '='.
PAD == 64

RECURSIVE B64Digits(_)
\* The digits before the first '=': Node's decoder stops at padding.
B64Digits(s) ==
  IF s = <<>> \/ Head(s) = PAD THEN <<>> ELSE <<Head(s)>> \o B64Digits(Tail(s))

RECURSIVE DecodeDigits(_)
DecodeDigits(d) ==
  IF Len(d) < 2 THEN <<>>
  ELSE IF Len(d) = 2 THEN <<d[1] * 4 + d[2] \div 16>>
  ELSE IF Len(d) = 3
    THEN <<d[1] * 4 + d[2] \div 16, (d[2] % 16) * 16 + d[3] \div 4>>
  ELSE <<d[1] * 4 + d[2] \div 16, (d[2] % 16) * 16 + d[3] \div 4,
         (d[3] % 4) * 64 + d[4]>> \o DecodeDigits(SubSeq(d, 5, Len(d)))

\* Buffer.from(text, 'base64')
fromB64(s) == DecodeDigits(B64Digits(s))

RECURSIVE b64(_)
\* Buffer.from(bytes).toString('base64')
b64(b) ==
  IF b = <<>> THEN <<>>
  ELSE IF Len(b) = 1 THEN <<b[1] \div 4, (b[1] % 4) * 16, PAD, PAD>>
  ELSE IF Len(b) = 2
    THEN <<b[1] \div 4, (b[1] % 4) * 16 + b[2] \div 16, (b[2] % 16) * 4, PAD>>
  ELSE <<b[1] \div 4, (b[1] % 4) * 16 + b[2] \div 16,
         (b[2] % 16) * 4 + b[3] \div 64, b[3] % 64>> \o b64(SubSeq(b, 4, Len(b)))

\* ------------------------------------------------------------ frames
\* Inbound frames a client may send: "" stands for an absent field.  A
\* client may add fields the relay does not read, such as a `from`.
CT_QQ == <<16, 16, PAD, PAD>>   \* "QQ==": the byte 65
CT_QUJ == <<16, 20, 9>>         \* "QUJ": unpadded, non-canonical; bytes 65, 66
Frames ==
  { [to |-> "dB1",    ciphertext |-> CT_QQ,  clientMsgId |-> "k1", from |-> "dB2"],
    [to |-> "bob",    ciphertext |-> CT_QUJ, clientMsgId |-> "",   from |-> ""],
    [to |-> "nobody", ciphertext |-> CT_QQ,  clientMsgId |-> "",   from |-> ""],
    [to |-> "",       ciphertext |-> CT_QQ,  clientMsgId |-> "",   from |-> ""] }
\* The frames of the rate-limit runs: well-formed, to a known device.
RateFrames ==
  { [to |-> "dB1", ciphertext |-> CT_QQ, clientMsgId |-> "k1", from |-> "dB2"] }

NoFrame == [kind |-> "", id |-> 0, from |-> "", to |-> "", ciphertext |-> <<>>,
            mode |-> "", clientMsgId |-> "", code |-> "", via |-> ""]
\* The delivered-envelope frame; via records which path wrote it.
EnvFrame(id, from, to, ct, via) ==
  [NoFrame EXCEPT !.kind = "env", !.id = id, !.from = from, !.to = to,
                  !.ciphertext = ct, !.via = via]
AckFrame(id, to, mode, cmid) ==
  [NoFrame EXCEPT !.kind = "delivered", !.id = id, !.to = to, !.mode = mode,
                  !.clientMsgId = cmid]
ErrFrame(code) == [NoFrame EXCEPT !.kind = "error", !.code = code]

\* ------------------------------------------------------ rate limiter
\* checkRateLimit with the limit test off by one: count > MESSAGE_RATE_LIMIT.
checkRateLimit_OffByOne(limits, deviceId, t) ==
  LET entry == limits[deviceId] IN
  IF entry = NoEntry \/ t > entry.resetAt
    THEN [ok |-> TRUE,
          limits |-> [limits EXCEPT ![deviceId] =
                        [count |-> 1, resetAt |-> t + RATE_WINDOW_MS]]]
  ELSE IF entry.count > MESSAGE_RATE_LIMIT
    THEN [ok |-> FALSE, limits |-> limits]
  ELSE [ok |-> TRUE,
        limits |-> [limits EXCEPT ![deviceId].count = entry.count + 1]]

\* checkRateLimit counting the messages it rejects as well.
checkRateLimit_CountsRejected(limits, deviceId, t) ==
  LET entry == limits[deviceId] IN
  IF entry = NoEntry \/ t > entry.resetAt
    THEN [ok |-> TRUE,
          limits |-> [limits EXCEPT ![deviceId] =
                        [count |-> 1, resetAt |-> t + RATE_WINDOW_MS]]]
  ELSE [ok |-> entry.count < MESSAGE_RATE_LIMIT,
        limits |-> [limits EXCEPT ![deviceId].count = entry.count + 1]]

\* checkRateLimit(deviceId) at Date.now() = t: the verdict and the map after it.
checkRateLimit(limits, deviceId, t) ==
  LET entry == limits[deviceId] IN
  IF entry = NoEntry \/ t > entry.resetAt
    THEN [ok |-> TRUE,
          limits |-> [limits EXCEPT ![deviceId] =
                        [count |-> 1, resetAt |-> t + RATE_WINDOW_MS]]]
  ELSE IF entry.count >= MESSAGE_RATE_LIMIT
    THEN [ok |-> FALSE, limits |-> limits]
  ELSE [ok |-> TRUE,
        limits |-> [limits EXCEPT ![deviceId].count = entry.count + 1]]

\* ---------------------------------------------------- envelope table
IsOpen(c) == c # NoConn /\ readyState[c] = "OPEN"
HasRow(id) == \E e \in store : e.id = id
Row(id) == CHOOSE e \in store : e.id = id

\* findMany without its orderBy: the first n rows in any order.
OrderedTake_Unordered(S, n) ==
  LET k == IF Cardinality(S) < n THEN Cardinality(S) ELSE n IN
  { q \in [1..k -> S] : \A i, j \in 1..k : i < j => q[i] # q[j] }

\* findMany(... orderBy: { createdAt: 'asc' }, take: n): every order the
\* database may return rows of equal createdAt in.
OrderedTake(S, n) ==
  LET k == IF Cardinality(S) < n THEN Cardinality(S) ELSE n IN
  { q \in [1..k -> S] :
      /\ \A i, j \in 1..k : i < j => q[i] # q[j] /\ q[i].createdAt <= q[j].createdAt
      /\ \A e \in S : (\A i \in 1..k : q[i] # e) =>
                        \A i \in 1..k : q[i].createdAt <= e.createdAt }

\* The backlog query without a where-clause.
BacklogRows_All(uid, did) == store

\* The where-clause of the connect-time backlog query.
BacklogRows(uid, did) ==
  { e \in store : e.toDeviceId = did \/ (e.toUserId = uid /\ e.toDeviceId = "") }
\* The where-clause of the inbox query.
InboxRows(did, peerDeviceIds) ==
  { e \in store : e.toDeviceId = did /\ e.fromDeviceId \in peerDeviceIds }

\* -------------------------------------------------------------- Init
NoDrain == [pc |-> "none", pending |-> <<>>]
NoClose == [code |-> 0, reason |-> ""]
\* Prekey rows present when the relay starts: two of dB1, one of dB2.
PrekeyIds == 1..3
InitOtk ==
  [k \in PrekeyIds |-> [deviceId |-> IF k < 3 THEN "dB1" ELSE "dB2", used |-> FALSE]]

\* The refs and state of the thread screen before its effect has run.
NoCloseEvent == [sock |-> 0, code |-> 0, reason |-> ""]
InitClient ==
  [mounted |-> FALSE, connId |-> 0, stopped |-> FALSE, attempts |-> 0, timer |-> 0,
   status |-> "idle", socks |-> <<>>, lastClose |-> NoCloseEvent]
\* The rows of the User and Device tables when the relay starts; a key is
\* kept as its bytes.
KeyBytes(b) == [i \in 1..32 |-> b]
InitUser == { [id |-> u, username |-> UserName(u)] : u \in Users }
InitDevice ==
  { [id |-> "dA", userId |-> "uA", identityKeyPub |-> KeyBytes(1)],
    [id |-> "dB1", userId |-> "uB", identityKeyPub |-> KeyBytes(2)],
    [id |-> "dB2", userId |-> "uB", identityKeyPub |-> KeyBytes(3)] }

Init ==
  /\ now = 0
  /\ ticks = 0
  /\ nConns = 0
  /\ readyState = [c \in Conn |-> "NONE"]
  /\ sub = [c \in Conn |-> NoSub]
  /\ closeInfo = [c \in Conn |-> NoClose]
  /\ conns = [d \in Devices |-> NoConn]
  /\ userDevices = [u \in Users |-> {}]
  /\ lastSeenAt = [d \in Devices |-> 0]
  /\ store = {}
  /\ nextId = 1
  /\ drain = [c \in Conn |-> NoDrain]
  /\ msgs = <<>>
  /\ recv = [c \in Conn |-> <<>>]
  /\ wsRateLimits = [d \in Devices |-> NoEntry]
  /\ inbox = <<>>
  /\ lastCleanup = [at |-> 0, count |-> 0]
  /\ otk = InitOtk
  /\ fetch = <<>>
  /\ pingsOut = [c \in Conn |-> FALSE]
  /\ client = InitClient
  /\ user = InitUser
  /\ device = InitDevice
  /\ http = <<>>

\* ------------------------------------------------ connection lifecycle
\* The close handler without its identity test: conns.delete(did) always.
UnregisterOnClose_Unconditional(c, did) == [conns EXCEPT ![did] = NoConn]

\* The close handler leaving the registry as it is.
UnregisterOnClose_Never(c, did) == conns

\* The close handler's registry update, for the socket c bound to did.
UnregisterOnClose(c, did) ==
  IF conns[did] = c THEN [conns EXCEPT ![did] = NoConn] ELSE conns

\* wss.on('connection') closing an unverified socket with a plain close(),
\* without code or reason.
WsConnection_PlainClose(tok) ==
  /\ nConns < MaxConns
  /\ LET c == nConns + 1 IN
     /\ nConns' = c
     /\ IF tok = NoSub
          THEN /\ readyState' = [readyState EXCEPT ![c] = "CLOSING"]
               /\ UNCHANGED <<sub, closeInfo, conns, userDevices, lastSeenAt, drain>>
          ELSE /\ readyState' = [readyState EXCEPT ![c] = "OPEN"]
               /\ sub' = [sub EXCEPT ![c] = tok]
               /\ conns' = [conns EXCEPT ![tok.did] = c]
               /\ userDevices' = [userDevices EXCEPT ![tok.uid] = @ \cup {tok.did}]
               /\ lastSeenAt' = [lastSeenAt EXCEPT ![tok.did] = now]
               /\ drain' = [drain EXCEPT ![c] = [pc |-> "find", pending |-> <<>>]]
               /\ UNCHANGED closeInfo
  /\ UNCHANGED <<now, ticks, store, nextId, msgs, recv, wsRateLimits, inbox,
                 lastCleanup, otk, fetch,
                 pingsOut, client, user, device, http>>

\* wss.on('connection') without the update of Device.lastSeenAt.
WsConnection_NoLastSeen(tok) ==
  /\ nConns < MaxConns
  /\ LET c == nConns + 1 IN
     /\ nConns' = c
     /\ IF tok = NoSub
          THEN /\ readyState' = [readyState EXCEPT ![c] = "CLOSING"]
               /\ closeInfo' = [closeInfo EXCEPT ![c].code = 1008,
                                                 ![c].reason = "unauthorized"]
               /\ UNCHANGED <<sub, conns, userDevices, drain>>
          ELSE /\ readyState' = [readyState EXCEPT ![c] = "OPEN"]
               /\ sub' = [sub EXCEPT ![c] = tok]
               /\ conns' = [conns EXCEPT ![tok.did] = c]
               /\ userDevices' = [userDevices EXCEPT ![tok.uid] = @ \cup {tok.did}]
               /\ drain' = [drain EXCEPT ![c] = [pc |-> "find", pending |-> <<>>]]
               /\ UNCHANGED closeInfo
  /\ UNCHANGED <<now, ticks, lastSeenAt, store, nextId, msgs, recv, wsRateLimits, inbox,
                 lastCleanup, otk, fetch, pingsOut, client, user, device, http>>

\* wss.on('connection'): tok is what verifyToken returns (NoSub for null).
WsConnection(tok) ==
  /\ nConns < MaxConns
  /\ LET c == nConns + 1 IN
     /\ nConns' = c
     /\ IF tok = NoSub
          THEN /\ readyState' = [readyState EXCEPT ![c] = "CLOSING"]
               /\ closeInfo' = [closeInfo EXCEPT ![c].code = 1008,
                                                 ![c].reason = "unauthorized"]
               /\ UNCHANGED <<sub, conns, userDevices, lastSeenAt, drain>>
          ELSE /\ readyState' = [readyState EXCEPT ![c] = "OPEN"]
               /\ sub' = [sub EXCEPT ![c] = tok]
               /\ conns' = [conns EXCEPT ![tok.did] = c]
               /\ userDevices' = [userDevices EXCEPT ![tok.uid] = @ \cup {tok.did}]
               /\ lastSeenAt' = [lastSeenAt EXCEPT ![tok.did] = now]
               /\ drain' = [drain EXCEPT ![c] = [pc |-> "find", pending |-> <<>>]]
               /\ UNCHANGED closeInfo
  /\ UNCHANGED <<now, ticks, store, nextId, msgs, recv, wsRateLimits, inbox,
                 lastCleanup, otk, fetch,
                 pingsOut, client, user, device, http>>

\* The peer's close frame, or a dropped link, is noticed: the socket leaves
\* OPEN before its 'close' event is emitted.
SocketClosing(c) ==
  /\ readyState[c] = "OPEN"
  /\ readyState' = [readyState EXCEPT ![c] = "CLOSING"]
  /\ UNCHANGED <<now, ticks, nConns, sub, closeInfo, conns, userDevices, lastSeenAt,
                 store, nextId, drain, msgs, recv, wsRateLimits, inbox, lastCleanup,
                 otk, fetch,
                 pingsOut, client, user, device, http>>

\* ws.on('close'); a socket that failed verification has no handler.
WsClose(c) ==
  /\ readyState[c] \in {"OPEN", "CLOSING"}
  /\ readyState' = [readyState EXCEPT ![c] = "CLOSED"]
  /\ IF sub[c] = NoSub
       THEN UNCHANGED <<conns, userDevices>>
       ELSE /\ conns' = UnregisterOnClose(c, sub[c].did)
            /\ userDevices' = [userDevices EXCEPT ![sub[c].uid] = @ \ {sub[c].did}]
  /\ UNCHANGED <<now, ticks, nConns, sub, closeInfo, lastSeenAt, store, nextId, drain,
                 msgs, recv, wsRateLimits, inbox, lastCleanup, otk, fetch,
                 pingsOut, client, user, device, http>>

\* The 30 s keepalive interval: a registered socket that is not OPEN is
\* terminated and dropped from the registry; every other one is sent a ping.
Keepalive ==
  /\ conns' = [d \in Devices |->
                 IF conns[d] # NoConn /\ readyState[conns[d]] # "OPEN"
                   THEN NoConn ELSE conns[d]]
  /\ pingsOut' = [c \in Conn |->
                    IF \E d \in Devices : conns[d] = c /\ readyState[c] = "OPEN"
                      THEN TRUE ELSE pingsOut[c]]
  /\ UNCHANGED <<now, ticks, nConns, readyState, sub, closeInfo, userDevices,
                 lastSeenAt, store, nextId, drain, msgs, recv, wsRateLimits, inbox,
                 lastCleanup, otk, fetch, client, user, device, http>>

\* The peer's pong reaches the relay, which has no 'pong' listener.
Pong(c) ==
  /\ readyState[c] = "OPEN"
  /\ pingsOut[c]
  /\ pingsOut' = [pingsOut EXCEPT ![c] = FALSE]
  /\ UNCHANGED <<relayVars, client, user, device, http>>

\* The sweep with >= in place of >: it forgets a window at its last instant.
RateLimitCleanup_Gte ==
  /\ wsRateLimits' = [d \in Devices |->
                        IF wsRateLimits[d] # NoEntry /\ now >= wsRateLimits[d].resetAt
                          THEN NoEntry ELSE wsRateLimits[d]]
  /\ UNCHANGED <<now, ticks, nConns, readyState, sub, closeInfo, conns, userDevices,
                 lastSeenAt, store, nextId, drain, msgs, recv, inbox, lastCleanup,
                 otk, fetch,
                 pingsOut, client, user, device, http>>

\* The 60 s interval that forgets elapsed rate-limit windows.
RateLimitCleanup ==
  /\ wsRateLimits' = [d \in Devices |->
                        IF wsRateLimits[d] # NoEntry /\ now > wsRateLimits[d].resetAt
                          THEN NoEntry ELSE wsRateLimits[d]]
  /\ UNCHANGED <<now, ticks, nConns, readyState, sub, closeInfo, conns, userDevices,
                 lastSeenAt, store, nextId, drain, msgs, recv, inbox, lastCleanup,
                 otk, fetch,
                 pingsOut, client, user, device, http>>

\* Date.now() advances by dt ms.
Tick(dt) ==
  /\ ticks < MaxTicks
  /\ ticks' = ticks + 1
  /\ now' = now + dt
  /\ UNCHANGED <<nConns, readyState, sub, closeInfo, conns, userDevices, lastSeenAt,
                 store, nextId, drain, msgs, recv, wsRateLimits, inbox, lastCleanup,
                 otk, fetch,
                 pingsOut, client, user, device, http>>

\* The where-clause with lte in place of lt.
cleanupFilter_Lte(rows, t) == { e \in rows : e.expiresAt <= t }

\* The where-clause of cleanupExpiredEnvelopes: expiresAt: { lt: new Date() }.
cleanupFilter(rows, t) == { e \in rows : e.expiresAt < t }

\* cleanupExpiredEnvelopes(prisma): deleteMany, returning result.count.
cleanupExpiredEnvelopes ==
  /\ store' = store \ cleanupFilter(store, now)
  /\ lastCleanup' = [at |-> now, count |-> Cardinality(cleanupFilter(store, now))]
  /\ UNCHANGED <<now, ticks, nConns, readyState, sub, closeInfo, conns, userDevices,
                 lastSeenAt, nextId, drain, msgs, recv, wsRateLimits, inbox, otk, fetch,
                 pingsOut, client, user, device, http>>

\* ---------------------------------------------------- ws.on('message')
\* The handler taking the sender from the frame when the frame names one.
NewMsg_TrustsFrame(c, f) ==
  [conn |-> c, did |-> IF f.from # "" THEN f.from ELSE sub[c].did, at |-> now,
   to |-> f.to, ciphertext |-> f.ciphertext,
   clientMsgId |-> f.clientMsgId, pc |-> "done", tUser |-> "", tDev |-> "",
   env |-> 0, delivered |-> FALSE, outcome |-> "", lookups |-> 0]

\* The locals of a handler started by frame f on socket c: did is the
\* device id of the socket's token.
NewMsg(c, f) ==
  [conn |-> c, did |-> sub[c].did, at |-> now, to |-> f.to, ciphertext |-> f.ciphertext,
   clientMsgId |-> f.clientMsgId, pc |-> "done", tUser |-> "", tDev |-> "",
   env |-> 0, delivered |-> FALSE, outcome |-> "", lookups |-> 0]

\* The sockets the immediate delivery writes to.
PushTargets(tUser, tDev) ==
  IF tDev # ""
    THEN { c \in Conn : c = conns[tDev] /\ IsOpen(c) }
    ELSE { c \in Conn : \E d \in userDevices[tUser] : c = conns[d] /\ IsOpen(c) }

\* The ACK with its mode fixed to "queued".
AckTo_AlwaysQueued(rcv, m) ==
  IF IsOpen(conns[m.did])
    THEN [rcv EXCEPT ![conns[m.did]] =
            Append(@, AckFrame(m.env, m.to, "queued", m.clientMsgId))]
    ELSE rcv

\* "ACK to sender": written to the socket registered for the sending device.
AckTo(rcv, m) ==
  IF IsOpen(conns[m.did])
    THEN [rcv EXCEPT ![conns[m.did]] =
            Append(@, AckFrame(m.env, m.to, IF m.delivered THEN "direct" ELSE "queued",
                               m.clientMsgId))]
    ELSE rcv
AckOutcome(m) == IF IsOpen(conns[m.did]) THEN "acked" ELSE "no_sender"

\* The handler closing the socket of a sender it rejects.
WsMessage_RejectCloses(c, f) ==
  /\ readyState[c] = "OPEN"
  /\ sub[c] # NoSub
  /\ LET rl == checkRateLimit(wsRateLimits, sub[c].did, now) IN
     /\ wsRateLimits' = rl.limits
     /\ IF ~rl.ok
          THEN /\ recv' = [recv EXCEPT ![c] = Append(@, ErrFrame("RATE_LIMIT"))]
               /\ msgs' = Append(msgs, [NewMsg(c, f) EXCEPT !.outcome = "rate_limited"])
               /\ readyState' = [readyState EXCEPT ![c] = "CLOSING"]
               /\ closeInfo' = [closeInfo EXCEPT ![c].code = 1008,
                                                 ![c].reason = "rate limit"]
          ELSE /\ UNCHANGED <<readyState, closeInfo>>
               /\ IF f.to = "" \/ f.ciphertext = <<>>
                    THEN /\ msgs' = Append(msgs, [NewMsg(c, f) EXCEPT !.outcome = "dropped"])
                         /\ UNCHANGED recv
                    ELSE /\ msgs' = Append(msgs, [NewMsg(c, f) EXCEPT !.pc = "findDevice"])
                         /\ UNCHANGED recv
  /\ UNCHANGED <<now, ticks, nConns, sub, conns, userDevices,
                 lastSeenAt, store, nextId, drain, inbox, lastCleanup, otk, fetch,
                 pingsOut, client, user, device, http>>

\* A frame arrives on socket c: rate limit, parse, shape check, and the
\* device lookup is sent to the database.
WsMessage(c, f) ==
  /\ readyState[c] = "OPEN"
  /\ sub[c] # NoSub
  /\ LET rl == checkRateLimit(wsRateLimits, sub[c].did, now) IN
     /\ wsRateLimits' = rl.limits
     /\ IF ~rl.ok
          THEN /\ recv' = [recv EXCEPT ![c] = Append(@, ErrFrame("RATE_LIMIT"))]
               /\ msgs' = Append(msgs, [NewMsg(c, f) EXCEPT !.outcome = "rate_limited"])
          ELSE IF f.to = "" \/ f.ciphertext = <<>>
            THEN /\ msgs' = Append(msgs, [NewMsg(c, f) EXCEPT !.outcome = "dropped"])
                 /\ UNCHANGED recv
            ELSE /\ msgs' = Append(msgs, [NewMsg(c, f) EXCEPT !.pc = "findDevice"])
                 /\ UNCHANGED recv
  /\ UNCHANGED <<now, ticks, nConns, readyState, sub, closeInfo, conns, userDevices,
                 lastSeenAt, store, nextId, drain, inbox, lastCleanup, otk, fetch,
                 pingsOut, client, user, device, http>>

\* prisma.device.findUnique({ where: { id: msg.to } }) resolves.
MsgFindDevice(i) ==
  /\ msgs[i].pc = "findDevice"
  /\ msgs' = [msgs EXCEPT ![i] =
       IF msgs[i].to \in Devices
         THEN [msgs[i] EXCEPT !.pc = "create", !.tUser = DeviceUser(msgs[i].to),
                              !.tDev = msgs[i].to]
         ELSE [msgs[i] EXCEPT !.pc = "findUser"]]
  /\ UNCHANGED <<now, ticks, nConns, readyState, sub, closeInfo, conns, userDevices,
                 lastSeenAt, store, nextId, drain, recv, wsRateLimits, inbox,
                 lastCleanup, otk, fetch,
                 pingsOut, client, user, device, http>>

\* The username lookup resolving a handle to the account's most recently
\* seen device, as GET /resolve/:who does.
MsgFindUser_MostRecent(i) ==
  /\ msgs[i].pc = "findUser"
  /\ msgs' = [msgs EXCEPT ![i] =
       IF \E u \in Users : UserName(u) = msgs[i].to
         THEN LET u == CHOOSE u \in Users : UserName(u) = msgs[i].to IN
              [msgs[i] EXCEPT !.pc = "create", !.tUser = u,
                 !.tDev = CHOOSE d \in Devices :
                            /\ DeviceUser(d) = u
                            /\ \A e \in Devices :
                                 DeviceUser(e) = u => lastSeenAt[e] <= lastSeenAt[d]]
         ELSE [msgs[i] EXCEPT !.pc = "done", !.outcome = "unknown_recipient"]]
  /\ UNCHANGED <<now, ticks, nConns, readyState, sub, closeInfo, conns, userDevices,
                 lastSeenAt, store, nextId, drain, recv, wsRateLimits, inbox,
                 lastCleanup, otk, fetch,
                 pingsOut, client, user, device, http>>

\* prisma.user.findUnique({ where: { username: msg.to } }) resolves.
MsgFindUser(i) ==
  /\ msgs[i].pc = "findUser"
  /\ msgs' = [msgs EXCEPT ![i] =
       IF \E u \in Users : UserName(u) = msgs[i].to
         THEN [msgs[i] EXCEPT !.pc = "create",
                 !.tUser = CHOOSE u \in Users : UserName(u) = msgs[i].to]
         ELSE [msgs[i] EXCEPT !.pc = "done", !.outcome = "unknown_recipient"]]
  /\ UNCHANGED <<now, ticks, nConns, readyState, sub, closeInfo, conns, userDevices,
                 lastSeenAt, store, nextId, drain, recv, wsRateLimits, inbox,
                 lastCleanup, otk, fetch,
                 pingsOut, client, user, device, http>>

\* prisma.envelope.create resolves (ok) or rejects; then the immediate
\* delivery (one pass over the registry, recorded in lookups), and the ACK
\* when nothing was pushed.
MsgCreate(i, ok) ==
  /\ msgs[i].pc = "create"
  /\ IF ~ok
       THEN /\ msgs' = [msgs EXCEPT ![i].pc = "done", ![i].outcome = "create_failed"]
            /\ UNCHANGED <<store, nextId, recv>>
       ELSE LET m == [msgs[i] EXCEPT !.env = nextId, !.lookups = 1]
                row == [id |-> nextId, fromDeviceId |-> m.did, toUserId |-> m.tUser,
                        toDeviceId |-> m.tDev, ciphertext |-> fromB64(m.ciphertext),
                        createdAt |-> now, deliveredAt |-> FALSE,
                        expiresAt |-> now + EPHEMERAL_TTL_MS]
                targets == PushTargets(m.tUser, m.tDev)
                pushed == [c \in Conn |->
                             IF c \in targets
                               THEN Append(recv[c], EnvFrame(m.env, m.did, sub[c].did,
                                                             m.ciphertext, "push"))
                               ELSE recv[c]]
            IN /\ store' = store \cup {row}
               /\ nextId' = nextId + 1
               /\ IF targets # {}
                    THEN /\ recv' = pushed
                         /\ msgs' = [msgs EXCEPT ![i] =
                                       [m EXCEPT !.pc = "update", !.delivered = TRUE]]
                    ELSE /\ recv' = AckTo(recv, m)
                         /\ msgs' = [msgs EXCEPT ![i] =
                                       [m EXCEPT !.pc = "done", !.outcome = AckOutcome(m)]]
  /\ UNCHANGED <<now, ticks, nConns, readyState, sub, closeInfo, conns, userDevices,
                 lastSeenAt, drain, wsRateLimits, inbox, lastCleanup, otk, fetch,
                 pingsOut, client, user, device, http>>

\* prisma.envelope.update({ where: { id }, data: { deliveredAt } }) resolves,
\* or rejects because the row is gone.
MsgUpdate(i) ==
  /\ msgs[i].pc = "update"
  /\ IF HasRow(msgs[i].env)
       THEN /\ store' = (store \ {Row(msgs[i].env)})
                          \cup {[Row(msgs[i].env) EXCEPT !.deliveredAt = TRUE]}
            /\ msgs' = [msgs EXCEPT ![i].pc = "delete"]
       ELSE /\ msgs' = [msgs EXCEPT ![i].pc = "done", ![i].outcome = "not_found"]
            /\ UNCHANGED store
  /\ UNCHANGED <<now, ticks, nConns, readyState, sub, closeInfo, conns, userDevices,
                 lastSeenAt, nextId, drain, recv, wsRateLimits, inbox, lastCleanup,
                 otk, fetch,
                 pingsOut, client, user, device, http>>

\* The handler acknowledging after the push without deleting the envelope.
MsgDelete_KeepsRow(i) ==
  /\ msgs[i].pc = "delete"
  /\ recv' = AckTo(recv, msgs[i])
  /\ msgs' = [msgs EXCEPT ![i].pc = "done", ![i].outcome = AckOutcome(msgs[i])]
  /\ UNCHANGED <<now, ticks, nConns, readyState, sub, closeInfo, conns, userDevices,
                 lastSeenAt, store, nextId, drain, wsRateLimits, inbox, lastCleanup,
                 otk, fetch,
                 pingsOut, client, user, device, http>>

\* prisma.envelope.delete({ where: { id } }) resolves, then the ACK; or it
\* rejects because the row is gone.
MsgDelete(i) ==
  /\ msgs[i].pc = "delete"
  /\ IF HasRow(msgs[i].env)
       THEN /\ store' = store \ {Row(msgs[i].env)}
            /\ recv' = AckTo(recv, msgs[i])
            /\ msgs' = [msgs EXCEPT ![i].pc = "done", ![i].outcome = AckOutcome(msgs[i])]
       ELSE /\ msgs' = [msgs EXCEPT ![i].pc = "done", ![i].outcome = "not_found"]
            /\ UNCHANGED <<store, recv>>
  /\ UNCHANGED <<now, ticks, nConns, readyState, sub, closeInfo, conns, userDevices,
                 lastSeenAt, nextId, drain, wsRateLimits, inbox, lastCleanup, otk, fetch,
                 pingsOut, client, user, device, http>>

\* ------------------------------------------------ connect-time backlog
\* The replay loop without its readyState test.
DrainStep_NoOpenCheck(c, pending) ==
  IF pending = <<>>
    THEN /\ drain' = [drain EXCEPT ![c] = [pc |-> "done", pending |-> pending]]
         /\ UNCHANGED recv
    ELSE /\ drain' = [drain EXCEPT ![c] = [pc |-> "update", pending |-> pending]]
         /\ recv' = [recv EXCEPT ![c] =
              Append(@, EnvFrame(Head(pending).id, Head(pending).fromDeviceId,
                                 sub[c].did, b64(Head(pending).ciphertext), "backlog"))]

\* The head of the replay loop for socket c with `pending` left: stop when
\* nothing is left or the socket is not OPEN, else write the next frame.
DrainStep(c, pending) ==
  IF pending = <<>> \/ readyState[c] # "OPEN"
    THEN /\ drain' = [drain EXCEPT ![c] = [pc |-> "done", pending |-> pending]]
         /\ UNCHANGED recv
    ELSE /\ drain' = [drain EXCEPT ![c] = [pc |-> "update", pending |-> pending]]
         /\ recv' = [recv EXCEPT ![c] =
              Append(@, EnvFrame(Head(pending).id, Head(pending).fromDeviceId,
                                 sub[c].did, b64(Head(pending).ciphertext), "backlog"))]

\* prisma.envelope.findMany of the backlog resolves with the rows q.
DrainFind(c, q) ==
  /\ drain[c].pc = "find"
  /\ q \in OrderedTake(BacklogRows(sub[c].uid, sub[c].did), BACKLOG_TAKE)
  /\ DrainStep(c, q)
  /\ UNCHANGED <<now, ticks, nConns, readyState, sub, closeInfo, conns, userDevices,
                 lastSeenAt, store, nextId, msgs, wsRateLimits, inbox, lastCleanup,
                 otk, fetch,
                 pingsOut, client, user, device, http>>

\* The replay's envelope.update resolves, or rejects because the row is gone.
DrainUpdate(c) ==
  /\ drain[c].pc = "update"
  /\ IF HasRow(Head(drain[c].pending).id)
       THEN /\ store' = (store \ {Row(Head(drain[c].pending).id)})
                 \cup {[Row(Head(drain[c].pending).id) EXCEPT !.deliveredAt = TRUE]}
            /\ drain' = [drain EXCEPT ![c].pc = "delete"]
       ELSE /\ drain' = [drain EXCEPT ![c].pc = "failed"]
            /\ UNCHANGED store
  /\ UNCHANGED <<now, ticks, nConns, readyState, sub, closeInfo, conns, userDevices,
                 lastSeenAt, nextId, msgs, recv, wsRateLimits, inbox, lastCleanup,
                 otk, fetch,
                 pingsOut, client, user, device, http>>

\* The replay's envelope.delete resolves and the loop goes on, or it rejects.
DrainDelete(c) ==
  /\ drain[c].pc = "delete"
  /\ IF HasRow(Head(drain[c].pending).id)
       THEN /\ store' = store \ {Row(Head(drain[c].pending).id)}
            /\ DrainStep(c, Tail(drain[c].pending))
       ELSE /\ drain' = [drain EXCEPT ![c].pc = "failed"]
            /\ UNCHANGED <<store, recv>>
  /\ UNCHANGED <<now, ticks, nConns, readyState, sub, closeInfo, conns, userDevices,
                 lastSeenAt, nextId, msgs, wsRateLimits, inbox, lastCleanup, otk, fetch,
                 pingsOut, client, user, device, http>>

\* ------------------------------------------- GET /inbox/from/:username
\* jwtVerify and the peer lookup; tok = NoSub is a rejected token.
InboxStart(tok, username) ==
  /\ Len(inbox) < MaxInbox
  /\ inbox' = Append(inbox,
       IF tok = NoSub
         THEN [did |-> "", peers |-> {}, pc |-> "done", status |-> 401, list |-> <<>>]
       ELSE IF ~\E u \in Users : UserName(u) = username
         THEN [did |-> tok.did, peers |-> {}, pc |-> "done", status |-> 200,
               list |-> <<>>]
       ELSE [did |-> tok.did,
             peers |-> { d \in Devices : UserName(DeviceUser(d)) = username },
             pc |-> "find", status |-> 0, list |-> <<>>])
  /\ UNCHANGED <<now, ticks, nConns, readyState, sub, closeInfo, conns, userDevices,
                 lastSeenAt, store, nextId, drain, msgs, recv, wsRateLimits,
                 lastCleanup, otk, fetch,
                 pingsOut, client, user, device, http>>

\* The inbox findMany resolves with the rows q; an empty list is the reply.
InboxFind(i, q) ==
  /\ inbox[i].pc = "find"
  /\ q \in OrderedTake(InboxRows(inbox[i].did, inbox[i].peers), INBOX_TAKE)
  /\ inbox' = [inbox EXCEPT ![i] =
       IF q = <<>> THEN [@ EXCEPT !.pc = "done", !.status = 200]
                   ELSE [@ EXCEPT !.pc = "update", !.list = q]]
  /\ UNCHANGED <<now, ticks, nConns, readyState, sub, closeInfo, conns, userDevices,
                 lastSeenAt, store, nextId, drain, msgs, recv, wsRateLimits,
                 lastCleanup, otk, fetch,
                 pingsOut, client, user, device, http>>

ListIds(q) == { q[k].id : k \in 1..Len(q) }

\* updateMany({ where: { id: { in: ids } }, data: { deliveredAt } })
InboxMark(i) ==
  /\ inbox[i].pc = "update"
  /\ store' = { IF e.id \in ListIds(inbox[i].list)
                  THEN [e EXCEPT !.deliveredAt = TRUE] ELSE e : e \in store }
  /\ inbox' = [inbox EXCEPT ![i].pc = "delete"]
  /\ UNCHANGED <<now, ticks, nConns, readyState, sub, closeInfo, conns, userDevices,
                 lastSeenAt, nextId, drain, msgs, recv, wsRateLimits, lastCleanup,
                 otk, fetch,
                 pingsOut, client, user, device, http>>

\* deleteMany({ where: { id: { in: ids } } }), then the reply with the items.
InboxDelete(i) ==
  /\ inbox[i].pc = "delete"
  /\ store' = { e \in store : e.id \notin ListIds(inbox[i].list) }
  /\ inbox' = [inbox EXCEPT ![i].pc = "done", ![i].status = 200]
  /\ UNCHANGED <<now, ticks, nConns, readyState, sub, closeInfo, conns, userDevices,
                 lastSeenAt, nextId, drain, msgs, recv, wsRateLimits, lastCleanup,
                 otk, fetch,
                 pingsOut, client, user, device, http>>

\* -------------------------------------------- GET /prekeys/:deviceId
\* device.findUnique with one unused prekey included (k = 0: none is left);
\* an unknown device is answered 404.
PrekeyFind(deviceId, k) ==
  /\ Len(fetch) < MaxFetch
  /\ IF deviceId \notin Devices
       THEN k = 0
       ELSE IF \E x \in PrekeyIds : otk[x].deviceId = deviceId /\ ~otk[x].used
         THEN k \in PrekeyIds /\ otk[k].deviceId = deviceId /\ ~otk[k].used
         ELSE k = 0
  /\ fetch' = Append(fetch,
       IF deviceId \notin Devices
         THEN [deviceId |-> deviceId, pc |-> "done", status |-> 404, key |-> 0]
       ELSE IF k = 0
         THEN [deviceId |-> deviceId, pc |-> "done", status |-> 200, key |-> 0]
       ELSE [deviceId |-> deviceId, pc |-> "update", status |-> 0, key |-> k])
  /\ UNCHANGED <<now, ticks, nConns, readyState, sub, closeInfo, conns, userDevices,
                 lastSeenAt, store, nextId, drain, msgs, recv, wsRateLimits, inbox,
                 lastCleanup, otk,
                 pingsOut, client, user, device, http>>

\* oneTimePrekey.update({ where: { id: otk.id }, data: { used: true } }), then
\* the reply carrying the prekey.
PrekeyMarkUsed(r) ==
  /\ fetch[r].pc = "update"
  /\ otk' = [otk EXCEPT ![fetch[r].key].used = TRUE]
  /\ fetch' = [fetch EXCEPT ![r].pc = "done", ![r].status = 200]
  /\ UNCHANGED <<now, ticks, nConns, readyState, sub, closeInfo, conns, userDevices,
                 lastSeenAt, store, nextId, drain, msgs, recv, wsRateLimits, inbox,
                 lastCleanup,
                 pingsOut, client, user, device, http>>

\* ------------------------------------- POST /signup, POST /login (routes)
\* Key texts a client may send: a 32-byte key, a 31-byte one, and the
\* identity key dB1 registered with.
K32 == b64(KeyBytes(9))
K31 == b64([i \in 1..31 |-> 9])
KdB1 == b64(KeyBytes(2))
OtkLists == UNION { [1..n -> {K32, K31}] : n \in 0..MaxOtkList }
\* The ids the database gives the rows the i-th request creates.
NewUserIds == <<"u1", "u2", "u3", "u4">>
NewDeviceIds == <<"d1", "d2", "d3", "d4">>
OtkId(i, k) == Cardinality(PrekeyIds) + (i - 1) * (MaxOtkList + 1) + k

NoReq ==
  [route |-> "", pc |-> "done", status |-> 0, username |-> "", idPub |-> <<>>,
   spPub |-> <<>>, otks |-> <<>>, pwOk |-> FALSE, uid |-> "", did |-> "",
   target |-> ""]

\* b.oneTimePrekeysB64.map(fromB64).filter(buf => buf.length === 32)
RECURSIVE KeepKeys(_)
KeepKeys(list) ==
  IF list = <<>> THEN <<>>
  ELSE (IF Len(fromB64(Head(list))) = 32 THEN <<fromB64(Head(list))>> ELSE <<>>)
         \o KeepKeys(Tail(list))

\* The body checks both routes start with; usernames are taken to pass the
\* format checks of /signup unless empty.
BodyStart(route, b) ==
  LET r == [NoReq EXCEPT !.route = route, !.username = b.username,
                         !.idPub = fromB64(b.identityKeyPubB64),
                         !.spPub = fromB64(b.signedPrekeyPubB64),
                         !.otks = b.oneTimePrekeysB64, !.pwOk = b.pwOk]
  IN IF b.username = "" THEN [r EXCEPT !.status = 400]
     ELSE IF Len(r.idPub) # 32 \/ Len(r.spPub) # 32 THEN [r EXCEPT !.status = 400]
     ELSE [r EXCEPT !.pc = "findUser"]

SignupStart(b) ==
  /\ Len(http) < MaxHttp
  /\ http' = Append(http, BodyStart("signup", b))
  /\ UNCHANGED <<relayVars, pingsOut, client, user, device>>

LoginStart(b) ==
  /\ Len(http) < MaxHttp
  /\ http' = Append(http, BodyStart("login", b))
  /\ UNCHANGED <<relayVars, pingsOut, client, user, device>>

\* user.findUnique({ where: { username } }) of /signup resolves.
SignupFindUser(i) ==
  /\ http[i].route = "signup" /\ http[i].pc = "findUser"
  /\ http' = [http EXCEPT ![i] =
       IF \E u \in user : u.username = http[i].username
         THEN [@ EXCEPT !.pc = "done", !.status = 409]
         ELSE [@ EXCEPT !.pc = "createUser"]]
  /\ UNCHANGED <<relayVars, pingsOut, client, user, device>>

\* user.create resolves, or rejects on the unique username.
SignupCreateUser(i) ==
  /\ http[i].route = "signup" /\ http[i].pc = "createUser"
  /\ IF \E u \in user : u.username = http[i].username
       THEN /\ http' = [http EXCEPT ![i].pc = "done", ![i].status = 500]
            /\ UNCHANGED user
       ELSE /\ user' = user \cup {[id |-> NewUserIds[i], username |-> http[i].username]}
            /\ http' = [http EXCEPT ![i].pc = "createDevice", ![i].uid = NewUserIds[i]]
  /\ UNCHANGED <<relayVars, pingsOut, client, device>>

\* device.create resolves; then the one-time prekeys of the body are
\* filtered, and createMany is sent if any is left.  ok is the status of
\* the reply: 201 for /signup, 200 for /login.
CreateDevice(i, ok) ==
  /\ device' = device \cup {[id |-> NewDeviceIds[i], userId |-> http[i].uid,
                               identityKeyPub |-> http[i].idPub]}
  /\ lastSeenAt' = (NewDeviceIds[i] :> now) @@ lastSeenAt
  /\ http' = [http EXCEPT ![i] =
       IF KeepKeys(http[i].otks) # <<>>
         THEN [@ EXCEPT !.pc = "createPrekeys", !.did = NewDeviceIds[i]]
         ELSE [@ EXCEPT !.pc = "done", !.status = ok, !.did = NewDeviceIds[i]]]
  /\ UNCHANGED <<now, ticks, nConns, readyState, sub, closeInfo, conns, userDevices,
                 store, nextId, drain, msgs, recv, wsRateLimits, inbox, lastCleanup,
                 otk, fetch, pingsOut, client, user>>

\* oneTimePrekey.createMany resolves, or rejects because the device is gone.
CreatePrekeys(i, ok) ==
  /\ http[i].pc = "createPrekeys"
  /\ IF \E d \in device : d.id = http[i].did
       THEN /\ otk' = [id \in { OtkId(i, k) : k \in 1..Len(KeepKeys(http[i].otks)) } |->
                         [deviceId |-> http[i].did, used |-> FALSE]] @@ otk
            /\ http' = [http EXCEPT ![i].pc = "done", ![i].status = ok]
       ELSE /\ http' = [http EXCEPT ![i].pc = "done", ![i].status = 500]
            /\ UNCHANGED otk
  /\ UNCHANGED <<now, ticks, nConns, readyState, sub, closeInfo, conns, userDevices,
                 lastSeenAt, store, nextId, drain, msgs, recv, wsRateLimits, inbox,
                 lastCleanup, fetch, pingsOut, client, user, device>>

SignupCreateDevice(i) ==
  /\ http[i].route = "signup" /\ http[i].pc = "createDevice"
  /\ CreateDevice(i, 201)

SignupCreatePrekeys(i) == http[i].route = "signup" /\ CreatePrekeys(i, 201)

\* user.findUnique of /login resolves; then verifyPassword.
LoginFindUser(i) ==
  /\ http[i].route = "login" /\ http[i].pc = "findUser"
  /\ http' = [http EXCEPT ![i] =
       IF ~\E u \in user : u.username = http[i].username
         THEN [@ EXCEPT !.pc = "done", !.status = 401]
       ELSE IF ~http[i].pwOk THEN [@ EXCEPT !.pc = "done", !.status = 401]
       ELSE [@ EXCEPT !.pc = "findDevice",
                      !.uid = (CHOOSE u \in user : u.username = http[i].username).id]]
  /\ UNCHANGED <<relayVars, pingsOut, client, user, device>>

\* device.findFirst({ where: { userId, identityKeyPub } }) resolves.
LoginFindDevice(i) ==
  /\ http[i].route = "login" /\ http[i].pc = "findDevice"
  /\ \/ \E d \in device :
          /\ d.userId = http[i].uid /\ d.identityKeyPub = http[i].idPub
          /\ http' = [http EXCEPT ![i].pc = "touch", ![i].did = d.id]
     \/ /\ ~\E d \in device : d.userId = http[i].uid /\ d.identityKeyPub = http[i].idPub
        /\ http' = [http EXCEPT ![i].pc = "createDevice"]
  /\ UNCHANGED <<relayVars, pingsOut, client, user, device>>

\* device.update({ data: { lastSeenAt } }) of the reused device resolves, or
\* rejects because the row is gone.
LoginTouch(i) ==
  /\ http[i].route = "login" /\ http[i].pc = "touch"
  /\ IF \E d \in device : d.id = http[i].did
       THEN /\ lastSeenAt' = [lastSeenAt EXCEPT ![http[i].did] = now]
            /\ http' = [http EXCEPT ![i].pc = "done", ![i].status = 200]
       ELSE /\ http' = [http EXCEPT ![i].pc = "done", ![i].status = 500]
            /\ UNCHANGED lastSeenAt
  /\ UNCHANGED <<now, ticks, nConns, readyState, sub, closeInfo, conns, userDevices,
                 store, nextId, drain, msgs, recv, wsRateLimits, inbox, lastCleanup,
                 otk, fetch, pingsOut, client, user, device>>

LoginCreateDevice(i) ==
  /\ http[i].route = "login" /\ http[i].pc = "createDevice"
  /\ CreateDevice(i, 200)

LoginCreatePrekeys(i) == http[i].route = "login" /\ CreatePrekeys(i, 200)

\* ------------------------------------------ DELETE /device/:deviceId
\* jwtVerify, then the checks on the claims and on the target.
RemoveStart(tok, targetId) ==
  /\ Len(http) < MaxHttp
  /\ http' = Append(http,
       LET r == [NoReq EXCEPT !.route = "removeDevice", !.uid = tok.uid,
                              !.did = tok.did, !.target = targetId]
       IN IF tok = NoSub THEN [r EXCEPT !.status = 401]
          ELSE IF tok.uid = "" \/ tok.did = "" THEN [r EXCEPT !.status = 400]
          ELSE IF targetId = tok.did THEN [r EXCEPT !.status = 400]
          ELSE [r EXCEPT !.pc = "findDevice"])
  /\ UNCHANGED <<relayVars, pingsOut, client, user, device>>

\* A lookup of the target by its id alone.
RemoveFindDevice_AnyOwner(i) ==
  /\ http[i].route = "removeDevice" /\ http[i].pc = "findDevice"
  /\ http' = [http EXCEPT ![i] =
       IF \E d \in device : d.id = http[i].target
         THEN [@ EXCEPT !.pc = "deletePrekeys"]
         ELSE [@ EXCEPT !.pc = "done", !.status = 404]]
  /\ UNCHANGED <<relayVars, pingsOut, client, user, device>>

\* device.findFirst({ where: { id: targetId, userId: uid } }) resolves.
RemoveFindDevice(i) ==
  /\ http[i].route = "removeDevice" /\ http[i].pc = "findDevice"
  /\ http' = [http EXCEPT ![i] =
       IF \E d \in device : d.id = http[i].target /\ d.userId = http[i].uid
         THEN [@ EXCEPT !.pc = "deletePrekeys"]
         ELSE [@ EXCEPT !.pc = "done", !.status = 404]]
  /\ UNCHANGED <<relayVars, pingsOut, client, user, device>>

Without(f, gone) == [k \in DOMAIN f \ gone |-> f[k]]
PrekeysOf(d) == { k \in DOMAIN otk : otk[k].deviceId = d }

RemoveDeletePrekeys_NoWhere(i) ==
  /\ http[i].route = "removeDevice" /\ http[i].pc = "deletePrekeys"
  /\ otk' = Without(otk, DOMAIN otk)
  /\ http' = [http EXCEPT ![i].pc = "deleteDevice"]
  /\ UNCHANGED <<now, ticks, nConns, readyState, sub, closeInfo, conns, userDevices,
                 lastSeenAt, store, nextId, drain, msgs, recv, wsRateLimits, inbox,
                 lastCleanup, fetch, pingsOut, client, user, device>>

\* oneTimePrekey.deleteMany({ where: { deviceId: targetId } }) resolves.
RemoveDeletePrekeys(i) ==
  /\ http[i].route = "removeDevice" /\ http[i].pc = "deletePrekeys"
  /\ otk' = Without(otk, PrekeysOf(http[i].target))
  /\ http' = [http EXCEPT ![i].pc = "deleteDevice"]
  /\ UNCHANGED <<now, ticks, nConns, readyState, sub, closeInfo, conns, userDevices,
                 lastSeenAt, store, nextId, drain, msgs, recv, wsRateLimits, inbox,
                 lastCleanup, fetch, pingsOut, client, user, device>>

\* device.delete({ where: { id: targetId } }) resolves, or rejects because
\* the row is gone.  Prekeys stored for the device since the deleteMany are
\* rows of a relation on the device: the delete takes them along or is
\* refused, as the schema's referential action says.
RemoveDeleteDevice(i) ==
  /\ http[i].route = "removeDevice" /\ http[i].pc = "deleteDevice"
  /\ \/ /\ \E d \in device : d.id = http[i].target
        /\ device' = { d \in device : d.id # http[i].target }
        /\ otk' = Without(otk, PrekeysOf(http[i].target))
        /\ http' = [http EXCEPT ![i].pc = "done", ![i].status = 200]
     \/ /\ \/ ~\E d \in device : d.id = http[i].target
           \/ PrekeysOf(http[i].target) # {}
        /\ http' = [http EXCEPT ![i].pc = "done", ![i].status = 500]
        /\ UNCHANGED <<device, otk>>
  /\ UNCHANGED <<now, ticks, nConns, readyState, sub, closeInfo, conns, userDevices,
                 lastSeenAt, store, nextId, drain, msgs, recv, wsRateLimits, inbox,
                 lastCleanup, fetch, pingsOut, client, user>>

\* The account routes: sign-ups, logins and device removals, interleaved by
\* the event loop.
SignupBodies ==
  [username : {"", "carol", "bob"}, identityKeyPubB64 : {K32, K31},
   signedPrekeyPubB64 : {K32, K31}, oneTimePrekeysB64 : OtkLists, pwOk : {TRUE}]
LoginBodies ==
  [username : {"bob", "dave"}, identityKeyPubB64 : {K32, K31, KdB1},
   signedPrekeyPubB64 : {K32}, oneTimePrekeysB64 : OtkLists, pwOk : BOOLEAN]

NextAccounts ==
  \/ \E b \in SignupBodies : SignupStart(b)
  \/ \E b \in LoginBodies : LoginStart(b)
  \/ \E tok \in {NoSub, [uid |-> "uB", did |-> "dB1"], [uid |-> "uB", did |-> "dB2"]},
        t \in {"dA", "dB1", "dB2", NewDeviceIds[1]} : RemoveStart(tok, t)
  \/ \E i \in 1..Len(http) : SignupFindUser(i)
  \/ \E i \in 1..Len(http) : SignupCreateUser(i)
  \/ \E i \in 1..Len(http) : SignupCreateDevice(i)
  \/ \E i \in 1..Len(http) : SignupCreatePrekeys(i)
  \/ \E i \in 1..Len(http) : LoginFindUser(i)
  \/ \E i \in 1..Len(http) : LoginFindDevice(i)
  \/ \E i \in 1..Len(http) : LoginTouch(i)
  \/ \E i \in 1..Len(http) : LoginCreateDevice(i)
  \/ \E i \in 1..Len(http) : LoginCreatePrekeys(i)
  \/ \E i \in 1..Len(http) : RemoveFindDevice(i)
  \/ \E i \in 1..Len(http) : RemoveDeletePrekeys(i)
  \/ \E i \in 1..Len(http) : RemoveDeleteDevice(i)

SpecAccounts == Init /\ [][NextAccounts]_vars

\* ------------------------------------------------- web client: useThread
maxReconnectAttempts == 5
\* The close events a socket of the client may see: closed by the relay as
\* replaced or unauthorized, lost without a close frame (1006), or the echo
\* of the client's own close(1000, 'unmount').
CloseEvents ==
  { [code |-> 1000, reason |-> "replaced"], [code |-> 1006, reason |-> ""],
    [code |-> 1008, reason |-> "unauthorized"], [code |-> 1000, reason |-> "unmount"] }

\* connect(initial): a new socket becomes the current one.
connect(cl, initial) ==
  [cl EXCEPT !.connId = cl.connId + 1,
             !.status = IF initial THEN "connecting" ELSE "reconnecting",
             !.socks = Append(cl.socks, "CONNECTING")]

\* The effect of the thread screen runs: stoppedRef is cleared, connect(true).
ClientMount ==
  /\ ~client.mounted
  /\ client.connId < MaxClientConns
  /\ client' = connect([client EXCEPT !.mounted = TRUE, !.stopped = FALSE], TRUE)
  /\ UNCHANGED <<relayVars, pingsOut, user, device, http>>

\* The effect's cleanup: the timer is cleared and the socket held by wsRef
\* is closed with (1000, 'unmount').
ClientUnmount ==
  /\ client.mounted
  /\ client' = [client EXCEPT
       !.mounted = FALSE, !.stopped = TRUE, !.timer = 0,
       !.socks = [k \in 1..Len(client.socks) |->
                    IF k = Len(client.socks) /\ client.socks[k] \in {"CONNECTING", "OPEN"}
                      THEN "CLOSING" ELSE client.socks[k]]]
  /\ UNCHANGED <<relayVars, pingsOut, user, device, http>>

\* ws.onopen of socket k.
ClientOnOpen(k) ==
  /\ client.socks[k] = "CONNECTING"
  /\ client' = IF k # client.connId
                 THEN [client EXCEPT !.socks[k] = "OPEN"]
                 ELSE [client EXCEPT !.socks[k] = "OPEN", !.status = "online",
                                     !.attempts = 0]
  /\ UNCHANGED <<relayVars, pingsOut, user, device, http>>

\* ws.onclose that schedules a reconnect however many were made.
ClientOnClose_NoCap(k, ev) ==
  /\ client.socks[k] \in {"CONNECTING", "OPEN", "CLOSING"}
  /\ ev.reason = "unmount" => client.socks[k] = "CLOSING"
  /\ client.socks[k] = "CLOSING" => ev.reason \in {"unmount", ""}
  /\ LET cl == [client EXCEPT !.socks[k] = "CLOSED",
                              !.lastClose = [sock |-> k, code |-> ev.code,
                                             reason |-> ev.reason]]
     IN client' =
          IF k # cl.connId \/ cl.stopped THEN cl
          ELSE IF ev.code = 1000 /\ ev.reason = "unmount" THEN cl
          ELSE [cl EXCEPT !.attempts = cl.attempts + 1, !.status = "reconnecting",
                          !.timer = k]
  /\ UNCHANGED <<relayVars, pingsOut, user, device, http>>

\* ws.onclose of socket k with the event ev.
ClientOnClose(k, ev) ==
  /\ client.socks[k] \in {"CONNECTING", "OPEN", "CLOSING"}
  /\ ev.reason = "unmount" => client.socks[k] = "CLOSING"
  /\ client.socks[k] = "CLOSING" => ev.reason \in {"unmount", ""}
  /\ LET cl == [client EXCEPT !.socks[k] = "CLOSED",
                              !.lastClose = [sock |-> k, code |-> ev.code,
                                             reason |-> ev.reason]]
     IN client' =
          IF k # cl.connId \/ cl.stopped THEN cl
          ELSE IF ev.code = 1000 /\ ev.reason = "unmount" THEN cl
          ELSE IF cl.attempts >= maxReconnectAttempts
            THEN [cl EXCEPT !.status = "offline"]
          ELSE [cl EXCEPT !.attempts = cl.attempts + 1, !.status = "reconnecting",
                          !.timer = k]
  /\ UNCHANGED <<relayVars, pingsOut, user, device, http>>

\* The reconnect timer set by the close of socket client.timer fires.
ClientTimer ==
  /\ client.timer # 0
  /\ client.connId < MaxClientConns
  /\ client' = IF ~client.stopped /\ client.timer = client.connId
                 THEN connect([client EXCEPT !.timer = 0], FALSE)
                 ELSE [client EXCEPT !.timer = 0]
  /\ UNCHANGED <<relayVars, pingsOut, user, device, http>>

\* ------------------------------------------------------ specifications
TickSteps == {RATE_WINDOW_MS, EPHEMERAL_TTL_MS}
Token(d) == [uid |-> DeviceUser(d), did |-> d]

\* The steps of the message handlers and of the backlog replays.
MsgSteps ==
  \/ \E i \in 1..Len(msgs) : MsgFindDevice(i)
  \/ \E i \in 1..Len(msgs) : MsgFindUser(i)
  \/ \E i \in 1..Len(msgs), ok \in BOOLEAN : MsgCreate(i, ok)
  \/ \E i \in 1..Len(msgs) : MsgUpdate(i)
  \/ \E i \in 1..Len(msgs) : MsgDelete(i)

DrainSteps ==
  \/ \E c \in Conn : \E q \in OrderedTake(BacklogRows(sub[c].uid, sub[c].did),
                                         BACKLOG_TAKE) : DrainFind(c, q)
  \/ \E c \in Conn : DrainUpdate(c)
  \/ \E c \in Conn : DrainDelete(c)

\* The delivery engine: a socket of dA, then sockets of dB1; message
\* handlers, backlog replays and the inbox route, interleaved by the event
\* loop.  (The keepalive interval runs in SpecRegistry.)
Next ==
  \/ WsConnection(IF nConns = 0 THEN Token("dA") ELSE Token("dB1"))
  \/ \E c \in Conn : SocketClosing(c)
  \/ \E c \in Conn : WsClose(c)
  \/ \E c \in Conn, f \in Frames : Len(msgs) < MaxMsgs /\ WsMessage(c, f)
  \/ MsgSteps
  \/ DrainSteps
  \/ InboxStart(Token("dB1"), "alice")
  \/ \E i \in 1..Len(inbox) :
       \E q \in OrderedTake(InboxRows(inbox[i].did, inbox[i].peers), INBOX_TAKE) :
         InboxFind(i, q)
  \/ \E i \in 1..Len(inbox) : InboxMark(i)
  \/ \E i \in 1..Len(inbox) : InboxDelete(i)

Spec == Init /\ [][Next]_vars

\* The connection registry: sockets of every device and unverified ones,
\* closes, the keepalive and the pongs of the peers that answer it; no
\* envelope is ever stored.
NextRegistry ==
  \/ \E tok \in Subs \cup {NoSub} : WsConnection(tok)
  \/ \E c \in Conn : SocketClosing(c)
  \/ \E c \in Conn : WsClose(c)
  \/ Keepalive
  \/ \E c \in Conn : Pong(c)
  \/ \E c \in Conn : DrainFind(c, <<>>)

SpecRegistry == Init /\ [][NextRegistry]_vars

\* Message handlers still running.
InFlight == Cardinality({ i \in 1..Len(msgs) : msgs[i].pc # "done" })

\* Expiry: dA connects and sends, time passes, the cleanup job runs, and
\* dB1 may connect at any point.
NextExpiry ==
  \/ nConns < 2 /\ WsConnection(IF nConns = 0 THEN Token("dA") ELSE Token("dB1"))
  \/ \E f \in RateFrames :
       Len(msgs) < MaxExpiryMsgs /\ InFlight < MaxInflight /\ WsMessage(1, f)
  \/ \E i \in 1..Len(msgs) : MsgFindDevice(i)
  \/ \E i \in 1..Len(msgs) : MsgCreate(i, TRUE)
  \/ \E i \in 1..Len(msgs) : MsgUpdate(i)
  \/ \E i \in 1..Len(msgs) : MsgDelete(i)
  \/ DrainSteps
  \/ \E dt \in TickSteps : Tick(dt)
  \/ cleanupExpiredEnvelopes

SpecExpiry == Init /\ [][NextExpiry]_vars

\* Sessions: a few sockets, verified as dA or dB1 or not verified at all,
\* any frame on any of them, closes, and the handlers and replays they start.
NextSession ==
  \/ \E tok \in {NoSub, Token("dA"), Token("dB1")} :
       nConns < MaxSessionConns /\ WsConnection(tok)
  \/ \E c \in Conn : SocketClosing(c)
  \/ \E c \in Conn : WsClose(c)
  \/ \E c \in Conn, f \in Frames : Len(msgs) < MaxMsgs /\ WsMessage(c, f)
  \/ MsgSteps
  \/ DrainSteps

SpecSession == Init /\ [][NextSession]_vars

\* Backlogs: dA connects and sends to dB1, time passes between the sends,
\* and dB1 fetches what is pending by connecting or through the inbox route.
NextBacklog ==
  \/ nConns < 2 /\ WsConnection(IF nConns = 0 THEN Token("dA") ELSE Token("dB1"))
  \/ \E f \in RateFrames :
       Len(msgs) < MaxExpiryMsgs /\ InFlight < MaxInflight /\ WsMessage(1, f)
  \/ \E i \in 1..Len(msgs) : MsgFindDevice(i)
  \/ \E i \in 1..Len(msgs) : MsgCreate(i, TRUE)
  \/ \E i \in 1..Len(msgs) : MsgUpdate(i)
  \/ \E i \in 1..Len(msgs) : MsgDelete(i)
  \/ DrainSteps
  \/ Tick(RATE_WINDOW_MS)
  \/ InboxStart(Token("dB1"), "alice")
  \/ \E i \in 1..Len(inbox) :
       \E q \in OrderedTake(InboxRows(inbox[i].did, inbox[i].peers), INBOX_TAKE) :
         InboxFind(i, q)
  \/ \E i \in 1..Len(inbox) : InboxMark(i)
  \/ \E i \in 1..Len(inbox) : InboxDelete(i)

SpecBacklog == Init /\ [][NextBacklog]_vars

\* The rate limiter: dA (socket 1) and dB1 (socket 2) are connected and
\* their backlog replays are over; dA sends well-formed frames to dB1.
InitRate ==
  /\ now = 0
  /\ ticks = 0
  /\ nConns = 2
  /\ readyState = [c \in Conn |-> IF c <= 2 THEN "OPEN" ELSE "NONE"]
  /\ sub = [c \in Conn |-> IF c = 1 THEN Token("dA")
                           ELSE IF c = 2 THEN Token("dB1") ELSE NoSub]
  /\ closeInfo = [c \in Conn |-> NoClose]
  /\ conns = [d \in Devices |-> IF d = "dA" THEN 1 ELSE IF d = "dB1" THEN 2 ELSE NoConn]
  /\ userDevices = [u \in Users |-> IF u = "uA" THEN {"dA"} ELSE {"dB1"}]
  /\ lastSeenAt = [d \in Devices |-> 0]
  /\ store = {}
  /\ nextId = 1
  /\ drain = [c \in Conn |-> IF c <= 2 THEN [pc |-> "done", pending |-> <<>>]
                             ELSE NoDrain]
  /\ msgs = <<>>
  /\ recv = [c \in Conn |-> <<>>]
  /\ wsRateLimits = [d \in Devices |-> NoEntry]
  /\ inbox = <<>>
  /\ lastCleanup = [at |-> 0, count |-> 0]
  /\ otk = InitOtk
  /\ fetch = <<>>
  /\ pingsOut = [c \in Conn |-> FALSE]
  /\ client = InitClient
  /\ user = InitUser
  /\ device = InitDevice
  /\ http = <<>>

NextRate ==
  \/ \E f \in RateFrames :
       Len(msgs) < MaxRateMsgs /\ InFlight < MaxInflight /\ WsMessage(1, f)
  \/ \E i \in 1..Len(msgs) : MsgFindDevice(i)
  \/ \E i \in 1..Len(msgs) : MsgCreate(i, TRUE)
  \/ \E i \in 1..Len(msgs) : MsgUpdate(i)
  \/ \E i \in 1..Len(msgs) : MsgDelete(i)
  \/ Tick(RATE_WINDOW_MS)
  \/ RateLimitCleanup

SpecRate == InitRate /\ [][NextRate]_vars

\* A flood: dA sends MESSAGE_RATE_LIMIT - 1 well-formed frames; after them
\* dA and dB1 send well-formed or malformed frames, while time passes.
FloodFrames == RateFrames \cup { f \in Frames : f.to = "" }
NextFlood ==
  \/ \E c \in 1..2, f \in FloodFrames :
       /\ Len(msgs) < MaxRateMsgs
       /\ InFlight < MaxInflight
       /\ Len(msgs) < MESSAGE_RATE_LIMIT - 1 => (c = 1 /\ f \in RateFrames)
       /\ WsMessage(c, f)
  \/ \E i \in 1..Len(msgs) : MsgFindDevice(i)
  \/ \E i \in 1..Len(msgs) : MsgCreate(i, TRUE)
  \/ \E i \in 1..Len(msgs) : MsgUpdate(i)
  \/ \E i \in 1..Len(msgs) : MsgDelete(i)
  \/ Tick(RATE_WINDOW_MS)

SpecFlood == InitRate /\ [][NextFlood]_vars

\* Connections over time: sockets verified as dA or dB1 or not verified,
\* well-formed frames to dB1, closes, replays, and the clock.
NextConnect ==
  \/ \E tok \in {NoSub, Token("dA"), Token("dB1")} :
       nConns < MaxSessionConns /\ WsConnection(tok)
  \/ \E c \in Conn : SocketClosing(c)
  \/ \E c \in Conn : WsClose(c)
  \/ \E c \in Conn, f \in RateFrames : Len(msgs) < MaxMsgs /\ WsMessage(c, f)
  \/ \E i \in 1..Len(msgs) : MsgFindDevice(i)
  \/ \E i \in 1..Len(msgs) : MsgCreate(i, TRUE)
  \/ \E i \in 1..Len(msgs) : MsgUpdate(i)
  \/ \E i \in 1..Len(msgs) : MsgDelete(i)
  \/ DrainSteps
  \/ Tick(RATE_WINDOW_MS)

SpecConnect == Init /\ [][NextConnect]_vars

\* Teardowns: a socket of dA, then sockets of dB1 that replace one another;
\* dA's frames to dB1, closes and the keepalive, interleaved with the
\* handlers and the replays.
NextTeardown ==
  \/ WsConnection(IF nConns = 0 THEN Token("dA") ELSE Token("dB1"))
  \/ \E c \in Conn : SocketClosing(c)
  \/ \E c \in Conn : WsClose(c)
  \/ Keepalive
  \/ \E f \in RateFrames : Len(msgs) < MaxMsgs /\ WsMessage(1, f)
  \/ \E i \in 1..Len(msgs) : MsgFindDevice(i)
  \/ \E i \in 1..Len(msgs) : MsgCreate(i, TRUE)
  \/ \E i \in 1..Len(msgs) : MsgUpdate(i)
  \/ \E i \in 1..Len(msgs) : MsgDelete(i)
  \/ DrainSteps

SpecTeardown == Init /\ [][NextTeardown]_vars

\* Ordering: dA connects, then dB1; dA sends frames to dB1 whose handlers
\* overlap one another and dB1's backlog replay; dB1's socket may close.
NextOrder ==
  \/ nConns < 2 /\ WsConnection(IF nConns = 0 THEN Token("dA") ELSE Token("dB1"))
  \/ SocketClosing(2)
  \/ WsClose(2)
  \/ \E f \in RateFrames : Len(msgs) < MaxOrderMsgs /\ WsMessage(1, f)
  \/ \E i \in 1..Len(msgs) : MsgFindDevice(i)
  \/ \E i \in 1..Len(msgs) : MsgCreate(i, TRUE)
  \/ \E i \in 1..Len(msgs) : MsgUpdate(i)
  \/ \E i \in 1..Len(msgs) : MsgDelete(i)
  \/ DrainSteps

SpecOrder == Init /\ [][NextOrder]_vars

\* Addressing: a few sockets of dA, dB1 and dB2; a frame to the device
\* dB1, to the account bob or to nobody on any of them; closes, handlers and
\* replays.
NextAddress ==
  \/ \E d \in Devices : nConns < MaxSessionConns /\ WsConnection(Token(d))
  \/ \E c \in Conn : SocketClosing(c)
  \/ \E c \in Conn : WsClose(c)
  \/ \E c \in Conn, f \in Frames : Len(msgs) < MaxMsgs /\ WsMessage(c, f)
  \/ \E i \in 1..Len(msgs) : MsgFindDevice(i)
  \/ \E i \in 1..Len(msgs) : MsgFindUser(i)
  \/ \E i \in 1..Len(msgs) : MsgCreate(i, TRUE)
  \/ \E i \in 1..Len(msgs) : MsgUpdate(i)
  \/ \E i \in 1..Len(msgs) : MsgDelete(i)
  \/ DrainSteps

SpecAddress == Init /\ [][NextAddress]_vars

\* Every way out of the store: dA sends to dB1, which connects and may lose
\* its socket during the replay or fetch through the inbox route, while the
\* clock passes the expiry time and the cleanup job runs.
NextLeave ==
  \/ nConns < 2 /\ WsConnection(IF nConns = 0 THEN Token("dA") ELSE Token("dB1"))
  \/ SocketClosing(2)
  \/ WsClose(2)
  \/ \E f \in RateFrames :
       Len(msgs) < MaxExpiryMsgs /\ InFlight < MaxInflight /\ WsMessage(1, f)
  \/ \E i \in 1..Len(msgs) : MsgFindDevice(i)
  \/ \E i \in 1..Len(msgs) : MsgCreate(i, TRUE)
  \/ \E i \in 1..Len(msgs) : MsgUpdate(i)
  \/ \E i \in 1..Len(msgs) : MsgDelete(i)
  \/ DrainSteps
  \/ ticks = 0 /\ Tick(EPHEMERAL_TTL_MS + 1)
  \/ cleanupExpiredEnvelopes
  \/ InboxStart(Token("dB1"), "alice")
  \/ \E i \in 1..Len(inbox) :
       \E q \in OrderedTake(InboxRows(inbox[i].did, inbox[i].peers), INBOX_TAKE) :
         InboxFind(i, q)
  \/ \E i \in 1..Len(inbox) : InboxMark(i)
  \/ \E i \in 1..Len(inbox) : InboxDelete(i)

SpecLeave == Init /\ [][NextLeave]_vars

\* A long backlog: the relay starts with MaxBacklog envelopes from dA stored
\* for dB1, created one ms apart, none of them expired; dB1 connects and its
\* socket may close at any time.
BigRow(k) ==
  [id |-> k, fromDeviceId |-> "dA", toUserId |-> "uB", toDeviceId |-> "dB1",
   ciphertext |-> <<65>>, createdAt |-> k, deliveredAt |-> FALSE,
   expiresAt |-> k + EPHEMERAL_TTL_MS]
InitBacklogged ==
  /\ now = MaxBacklog
  /\ ticks = 0
  /\ nConns = 0
  /\ readyState = [c \in Conn |-> "NONE"]
  /\ sub = [c \in Conn |-> NoSub]
  /\ closeInfo = [c \in Conn |-> NoClose]
  /\ conns = [d \in Devices |-> NoConn]
  /\ userDevices = [u \in Users |-> {}]
  /\ lastSeenAt = [d \in Devices |-> 0]
  /\ store = { BigRow(k) : k \in 1..MaxBacklog }
  /\ nextId = MaxBacklog + 1
  /\ drain = [c \in Conn |-> NoDrain]
  /\ msgs = <<>>
  /\ recv = [c \in Conn |-> <<>>]
  /\ wsRateLimits = [d \in Devices |-> NoEntry]
  /\ inbox = <<>>
  /\ lastCleanup = [at |-> 0, count |-> 0]
  /\ otk = InitOtk
  /\ fetch = <<>>
  /\ pingsOut = [c \in Conn |-> FALSE]
  /\ client = InitClient
  /\ user = InitUser
  /\ device = InitDevice
  /\ http = <<>>

\* The rows the backlog query of dB1 returns: the oldest BACKLOG_TAKE.
OldestRows ==
  [k \in 1..(IF MaxBacklog < BACKLOG_TAKE THEN MaxBacklog ELSE BACKLOG_TAKE) |->
     BigRow(k)]
\* The steps of the replay of socket 1.
ReplaySteps ==
  \/ DrainFind(1, OldestRows)
  \/ DrainUpdate(1)
  \/ DrainDelete(1)

NextBacklogged ==
  \/ nConns < 1 /\ WsConnection(Token("dB1"))
  \/ SocketClosing(1)
  \/ WsClose(1)
  \/ ReplaySteps

\* The database answers every query of the replay.
SpecBacklogged == InitBacklogged /\ [][NextBacklogged]_vars /\ WF_vars(ReplaySteps)

\* The thread screen of the web client and the life of its sockets.
NextClient ==
  \/ ClientMount
  \/ ClientUnmount
  \/ \E k \in 1..Len(client.socks) : ClientOnOpen(k)
  \/ \E k \in 1..Len(client.socks), ev \in CloseEvents : ClientOnClose(k, ev)
  \/ ClientTimer

SpecClient == Init /\ [][NextClient]_vars

\* The prekey route alone: overlapping bundle fetches.
NextPrekey ==
  \/ \E d \in Devices \cup {"nobody"}, k \in {0} \cup PrekeyIds : PrekeyFind(d, k)
  \/ \E r \in 1..Len(fetch) : PrekeyMarkUsed(r)

SpecPrekey == Init /\ [][NextPrekey]_vars

\* ---------------------------------------------------------- registry
\* C1: a second connection authenticating as a device that already has an
\* open registered connection takes its place in the registry, and the
\* earlier connection is closed with reason "replaced".
C1_ReplacedIsClosed ==
  [][\A d \in Devices :
       (IsOpen(conns[d]) /\ conns'[d] \notin {NoConn, conns[d]})
         => /\ readyState'[conns[d]] # "OPEN"
            /\ closeInfo'[conns[d]].reason = "replaced"]_vars

\* C9: the close handler of a socket removes the registry entry of its
\* device exactly when that entry holds this socket; every other entry, and
\* the entry of a newer socket of the same device, is left as it was.
C9_CloseUnregistersOnlyItself ==
  [][\A c \in Conn :
       (readyState[c] \in {"OPEN", "CLOSING"} /\ readyState'[c] = "CLOSED"
          /\ sub[c] # NoSub)
         => conns' = [d \in Devices |->
                        IF d = sub[c].did /\ conns[d] = c THEN NoConn ELSE conns[d]]]_vars

\* C9 witness: the first of two sockets of one device has closed after the
\* second was registered (its close removed the device from userDevices),
\* and the second is still registered and open.
C9_LateCloseSeen ==
  \E c1, c2 \in Conn :
    /\ c1 < c2
    /\ sub[c1] # NoSub
    /\ sub[c1] = sub[c2]
    /\ readyState[c1] = "CLOSED"
    /\ IsOpen(c2)
    /\ conns[sub[c2].did] = c2
    /\ sub[c2].did \notin userDevices[sub[c2].uid]

\* ----------------------------------------------------------- prekeys
\* C2: a one-time prekey is returned to at most one caller: no two answered
\* GET /prekeys/:deviceId requests carry the same prekey.
C2_PrekeyReturnedOnce ==
  \A r1, r2 \in 1..Len(fetch) :
    (r1 # r2 /\ fetch[r1].pc = "done" /\ fetch[r2].pc = "done" /\ fetch[r1].key # 0)
      => fetch[r1].key # fetch[r2].key

\* ---------------------------------------------------------- delivery
\* The sockets whose connect-time replay wrote envelope id, and the inbox
\* requests whose reply lists it.
ReplayedOn(id) ==
  { c \in Conn : \E k \in 1..Len(recv[c]) :
      recv[c][k].kind = "env" /\ recv[c][k].via = "backlog" /\ recv[c][k].id = id }
ListedIn(id) ==
  { i \in 1..Len(inbox) : inbox[i].pc = "done" /\ id \in ListIds(inbox[i].list) }
\* Every delivered-envelope frame written for envelope id, as <<socket, index>>.
EnvFrames(id) ==
  { ck \in Conn \X (1..(2 * MaxConns)) :
      /\ ck[2] <= Len(recv[ck[1]])
      /\ recv[ck[1]][ck[2]].kind = "env"
      /\ recv[ck[1]][ck[2]].id = id }

\* C3: each envelope is replayed in at most one drain, counting the
\* connect-time replays of all sockets and the inbox route.
C3_DrainedAtMostOnce ==
  \A id \in 1..(nextId - 1) :
    Cardinality(ReplayedOn(id)) + Cardinality(ListedIn(id)) <= 1

\* C4: an envelope acknowledged as "queued" reaches the recipient in exactly
\* one delivered-envelope frame, with the bytes that were sent, and is gone
\* from the store once the replay that wrote the frame is over.
C4_QueuedThenReplayedOnce ==
  \A i \in 1..Len(msgs) :
    (msgs[i].pc = "done" /\ msgs[i].outcome = "acked" /\ ~msgs[i].delivered)
      => /\ Cardinality(EnvFrames(msgs[i].env)) <= 1
         /\ \A ck \in EnvFrames(msgs[i].env) :
              /\ fromB64(recv[ck[1]][ck[2]].ciphertext) = fromB64(msgs[i].ciphertext)
              /\ drain[ck[1]].pc = "done" => ~HasRow(msgs[i].env)

\* C5: a message pushed to the recipient's open socket is acknowledged to
\* the sender with mode "direct" (unless the sender has no open socket left).
C5_PushedThenAckedDirect ==
  \A i \in 1..Len(msgs) :
    (msgs[i].pc = "done" /\ msgs[i].delivered)
      => /\ EnvFrames(msgs[i].env) # {}
         /\ msgs[i].outcome \in {"acked", "no_sender"}
         /\ msgs[i].outcome = "acked" =>
              \E c \in Conn : \E k \in 1..Len(recv[c]) :
                /\ sub[c].did = msgs[i].did
                /\ recv[c][k] = AckFrame(msgs[i].env, msgs[i].to, "direct",
                                         msgs[i].clientMsgId)

\* C7: a delivery update or delete that finds its envelope already deleted
\* is not an error: no message handler and no backlog replay is aborted by it.
C7_DeleteOfMissingRowIsNoop ==
  /\ \A i \in 1..Len(msgs) : msgs[i].outcome # "not_found"
  /\ \A c \in Conn : drain[c].pc # "failed"

\* C8: every frame that passed the shape check is answered, once its handler
\* is over, by an acknowledgment or an error frame (unless the sender has no
\* open socket left).
C8_ShapeValidFrameAnswered ==
  \A i \in 1..Len(msgs) :
    (msgs[i].pc = "done" /\ msgs[i].outcome # "dropped")
      => msgs[i].outcome \in {"acked", "rate_limited", "no_sender"}

\* -------------------------------------------------------- rate limit
\* The start of the fixed window that the k-th arrival falls in, for the
\* arrivals of device d: a window of RATE_WINDOW_MS opens with the first
\* arrival and with every arrival later than the end of the one before.
RECURSIVE WindowStart(_, _)
WindowStart(d, k) ==
  IF k = 0 THEN -1
  ELSE LET prev == WindowStart(d, k - 1) IN
       IF msgs[k].did # d THEN prev
       ELSE IF prev = -1 \/ msgs[k].at > prev + RATE_WINDOW_MS THEN msgs[k].at
       ELSE prev

\* The position of the k-th arrival among the arrivals of its device in
\* its window.
RankInWindow(k) ==
  LET start == WindowStart(msgs[k].did, k) IN
  Cardinality({ j \in 1..k : msgs[j].did = msgs[k].did /\ msgs[j].at >= start })

\* The rejected arrivals of socket c, and the error frames written to it.
RateLimited(c) ==
  { i \in 1..Len(msgs) : msgs[i].conn = c /\ msgs[i].outcome = "rate_limited" }
ErrorFrames(c) ==
  { k \in 1..Len(recv[c]) : recv[c][k] = ErrFrame("RATE_LIMIT") }

C10_SweepDeletesAtOrBeforeNow ==
  [][lastCleanup' # lastCleanup =>
       \A e \in store : e.expiresAt <= now => e \notin store']_vars

\* C10, amended: a run of cleanupExpiredEnvelopes at time now deletes every
\* envelope with expiresAt < now, delivered or not, keeps every envelope with
\* expiresAt >= now, and returns the number of envelopes it deleted.
C10_SweepDeletesBeforeNow ==
  [][lastCleanup' # lastCleanup =>
       /\ store' = { e \in store : e.expiresAt >= now }
       /\ lastCleanup'.at = now
       /\ lastCleanup'.count = Cardinality(store) - Cardinality(store')]_vars

\* C10 witness: the last run deleted an envelope and kept one that expires
\* at the very instant of the run.
C10_SweepSeen ==
  /\ lastCleanup.count > 0
  /\ \E e \in store : e.expiresAt = lastCleanup.at

\* C11: an envelope whose expiresAt has passed is not delivered: whenever a
\* backlog replay writes the frame of an envelope, that envelope has not
\* expired (expiresAt >= now).
C11_ExpiredNotReplayed ==
  [][\A c \in Conn :
       (drain[c].pc # "update" /\ drain'[c].pc = "update")
         => Head(drain'[c].pending).expiresAt >= now]_vars

\* ------------------------------------------------------------- order
\* The rows of q ascend by creation time.
Ascending(q) ==
  \A k1, k2 \in 1..Len(q) : k1 < k2 => q[k1].createdAt <= q[k2].createdAt
\* q without its first row.
Rest(q) == IF q = <<>> THEN <<>> ELSE Tail(q)
\* The replay of socket c writes a frame in this step.
ReplayWrites(c) ==
  /\ Len(recv'[c]) = Len(recv[c]) + 1
  /\ recv'[c][Len(recv'[c])].kind = "env"
  /\ recv'[c][Len(recv'[c])].via = "backlog"

\* C12: one backlog pass hands envelopes over oldest first: the rows a
\* replay still has to send ascend by creation time, every frame it writes
\* is that of the first of them, and the rows are left only from the front,
\* one per frame; the list replied by the inbox route ascends likewise.
C12_BacklogOldestFirst ==
  [][/\ \A c \in Conn :
          /\ Ascending(drain'[c].pending)
          /\ ReplayWrites(c) =>
               /\ drain'[c].pending # <<>>
               /\ recv'[c][Len(recv'[c])].id = Head(drain'[c].pending).id
               /\ \/ drain[c].pc = "find"
                  \/ drain'[c].pending = Rest(drain[c].pending)
          /\ drain[c].pc # "find" =>
               drain'[c].pending \in {drain[c].pending, Rest(drain[c].pending)}
     /\ \A i \in 1..Len(inbox') : Ascending(inbox'[i].list)]_vars

\* C12 witness: a replay pass holds two envelopes created at different
\* times and has written the frame of the older one, the newer one being next.
C12_TwoReplayedInOnePass ==
  \E c \in Conn :
    /\ drain[c].pc \in {"update", "delete"}
    /\ Len(drain[c].pending) = 2
    /\ drain[c].pending[1].createdAt < drain[c].pending[2].createdAt
    /\ recv[c] # <<>>
    /\ recv[c][Len(recv[c])].via = "backlog"
    /\ recv[c][Len(recv[c])].id = drain[c].pending[1].id

\* --------------------------------------------------------------- ACK
\* The frames the immediate delivery wrote for envelope id.
PushedFrames(id) ==
  { ck \in EnvFrames(id) : recv[ck[1]][ck[2]].via = "push" }

\* C13: every acknowledgment frame answers one accepted message of the
\* device it is written to: it carries the id of the envelope created for
\* that message and the message's `to`, its mode is "direct" exactly when
\* the envelope was pushed to at least one socket and "queued" otherwise,
\* and its clientMsgId is the one the sender gave ("" when it gave none).
C13_AckCarriesIdModeToken ==
  \A c \in Conn : \A k \in 1..Len(recv[c]) :
    recv[c][k].kind = "delivered"
      => \E i \in 1..Len(msgs) :
           /\ msgs[i].env # 0
           /\ msgs[i].did = sub[c].did
           /\ recv[c][k].id = msgs[i].env
           /\ recv[c][k].to = msgs[i].to
           /\ recv[c][k].clientMsgId = msgs[i].clientMsgId
           /\ recv[c][k].mode \in {"direct", "queued"}
           /\ recv[c][k].mode = "direct" <=> PushedFrames(msgs[i].env) # {}

\* C13 witness: a message carrying a clientMsgId was pushed to the
\* recipient and acknowledged.
C13_DirectAckSeen ==
  \E c \in Conn : \E k \in 1..Len(recv[c]) :
    /\ recv[c][k].kind = "delivered"
    /\ recv[c][k].mode = "direct"
    /\ recv[c][k].clientMsgId = "k1"
    /\ PushedFrames(recv[c][k].id) # {}

\* ------------------------------------------------- persistence failure
\* C14: when envelope.create fails, the sender is sent an error frame for
\* the message, and neither a delivered-envelope frame nor an acknowledgment
\* is written for it.
C14_PersistFailureSurfaced ==
  \A i \in 1..Len(msgs) :
    msgs[i].outcome = "create_failed"
      => /\ \E c \in Conn : \E k \in 1..Len(recv[c]) :
              sub[c].did = msgs[i].did /\ recv[c][k].kind = "error"
         /\ msgs[i].env = 0
         /\ ~msgs[i].delivered

\* ------------------------------------------------------- unauthorized
\* C15: a socket whose token is missing or fails verification is closed at
\* once with code 1008 and reason "unauthorized", is never registered, never
\* gets a backlog replay, is never written to, and no frame arriving on it
\* starts a handler.
C15_UnauthorizedShutOut ==
  \A c \in Conn :
    (c <= nConns /\ sub[c] = NoSub)
      => /\ readyState[c] \in {"CLOSING", "CLOSED"}
         /\ closeInfo[c] = [code |-> 1008, reason |-> "unauthorized"]
         /\ \A d \in Devices : conns[d] # c
         /\ drain[c] = NoDrain
         /\ recv[c] = <<>>
         /\ \A i \in 1..Len(msgs) : msgs[i].conn # c

\* C15 witness: an unverified socket has come and gone while a verified
\* socket had a frame handled.
C15_UnauthorizedSeen ==
  \E c \in Conn :
    /\ c <= nConns
    /\ sub[c] = NoSub
    /\ readyState[c] = "CLOSED"
    /\ Len(msgs) > 0

\* -------------------------------------------------------- resolution
\* The messages whose recipient lookup is over.
Resolved ==
  { i \in 1..Len(msgs) :
      /\ msgs[i].pc \notin {"findDevice", "findUser"}
      /\ msgs[i].outcome \notin {"rate_limited", "dropped"} }
IsHandle(to) == to \notin Devices /\ \E u \in Users : UserName(u) = to

LiveOfDevice(d) == { c \in Conn : c = conns[d] /\ IsOpen(c) }
LiveOfAccount(u) ==
  { c \in Conn : \E d \in Devices : DeviceUser(d) = u /\ c = conns[d] /\ IsOpen(c) }
\* Socket c is written the delivered-envelope frame of envelope id in this step.
GetsPush(c, id) ==
  /\ Len(recv'[c]) = Len(recv[c]) + 1
  /\ recv'[c][Len(recv'[c])].kind = "env"
  /\ recv'[c][Len(recv'[c])].id = id

\* C17: the immediate delivery that follows envelope.create writes the
\* frame to every socket that is registered and open for the target device,
\* or, for an account-wide target, for any device of the target account, and
\* to no other socket.
C17_PushReachesEveryLiveSocket ==
  [][\A i \in 1..Len(msgs) :
       (msgs[i].pc = "create" /\ msgs'[i].env # 0)
         => \A c \in Conn :
              GetsPush(c, msgs'[i].env)
                <=> c \in (IF msgs[i].tDev # "" THEN LiveOfDevice(msgs[i].tDev)
                                                ELSE LiveOfAccount(msgs[i].tUser))]_vars

\* C19: the account's device set joined with the registry yields exactly
\* the sockets registered and open for the account's devices.
C19_LookupByAccountExact ==
  \A u \in Users : PushTargets(u, "") = LiveOfAccount(u)

\* --------------------------------------------------------- lifecycle
\* C18: once the handler of a message is over, the envelope it created is
\* gone from the store if it was pushed to at least one socket; if it was
\* not pushed, it is still in the store, not marked delivered, unless a
\* backlog replay has taken it since.
C18_PushedDeletedElsePending ==
  \A i \in 1..Len(msgs) :
    (msgs[i].pc = "done" /\ msgs[i].env # 0)
      => /\ msgs[i].delivered <=> PushedFrames(msgs[i].env) # {}
         /\ msgs[i].delivered => ~HasRow(msgs[i].env)
         /\ ~msgs[i].delivered =>
              \/ HasRow(msgs[i].env) /\ ~Row(msgs[i].env).deliveredAt
              \/ ReplayedOn(msgs[i].env) # {}

\* C18 witness: a pushed envelope has been deleted and its sender
\* acknowledged.
C18_PushedAndDeleted ==
  \E i \in 1..Len(msgs) :
    /\ msgs[i].pc = "done"
    /\ msgs[i].delivered
    /\ msgs[i].outcome = "acked"
    /\ ~HasRow(msgs[i].env)

\* ------------------------------------------------------ prekey reuse
\* C20: a consumed one-time prekey stays used, and no reply that comes
\* after its consumption carries it in another bundle.
C20_ConsumedNeverReturnedAgain ==
  [][/\ \A k \in PrekeyIds : otk[k].used => otk'[k].used
     /\ \A r \in 1..Len(fetch) :
          (fetch[r].pc = "update" /\ fetch'[r].pc = "done")
            => ~otk[fetch[r].key].used]_vars

\* ---------------------------------------------------------- liveness
\* C22: a run of the keepalive pings every registered open socket, and a
\* registered socket that still owes the pong of an earlier ping (or is not
\* open) is terminated and removed from the registry by it.
C22_SilentPeerEvicted ==
  [][Keepalive =>
       \A d \in Devices :
         conns[d] # NoConn =>
           IF pingsOut[conns[d]] \/ readyState[conns[d]] # "OPEN"
             THEN conns'[d] = NoConn /\ readyState'[conns[d]] # "OPEN"
             ELSE pingsOut'[conns[d]]]_vars

\* ------------------------------------------------------ frame intake
\* A frame arrives in this step; it is the last of msgs'.
FrameArrives == Len(msgs') = Len(msgs) + 1
Malformed(m) == m.to = "" \/ m.ciphertext = <<>>

\* C23: a frame missing `to` or `ciphertext` is dropped in silence: its
\* handler ends at once, nothing is written to any socket, no envelope is
\* stored, and the socket stays open and registered.
C23_MalformedDroppedSilently ==
  [][(FrameArrives /\ Malformed(msgs'[Len(msgs')])) =>
       /\ msgs'[Len(msgs')].pc = "done"
       /\ recv' = recv
       /\ store' = store
       /\ nextId' = nextId
       /\ readyState' = readyState
       /\ conns' = conns
       /\ userDevices' = userDevices]_vars

\* C29: the rate limiter is consulted after the shape check and the
\* recipient lookup: the arrival of a malformed frame, or of a frame to an
\* unknown recipient, leaves every rate-limit counter as it was and is not
\* answered with RATE_LIMIT.
C29_RateLimitAfterValidation ==
  [][FrameArrives =>
       LET m == msgs'[Len(msgs')] IN
       (Malformed(m) \/ (m.to \notin Devices /\ ~IsHandle(m.to)))
         => /\ wsRateLimits' = wsRateLimits
            /\ m.outcome # "rate_limited"]_vars

\* ------------------------------------------------------- rejections
\* C24: a rejection is reported on the socket the frame came in on and
\* nowhere else; that socket stays open and registered; the rejection leaves
\* every counter, every stored envelope, every replay and every other
\* handler as it was; and a frame arriving after the end of the sender's
\* window is not rejected.
C24_RejectionIsLocal ==
  [][FrameArrives =>
       LET m == msgs'[Len(msgs')] IN
       /\ m.outcome = "rate_limited" =>
            /\ recv' = [recv EXCEPT ![m.conn] = Append(@, ErrFrame("RATE_LIMIT"))]
            /\ readyState' = readyState
            /\ closeInfo' = closeInfo
            /\ conns' = conns
            /\ userDevices' = userDevices
            /\ wsRateLimits' = wsRateLimits
            /\ store' = store
            /\ drain' = drain
            /\ \A i \in 1..Len(msgs) : msgs'[i] = msgs[i]
       /\ (wsRateLimits[m.did] # NoEntry /\ now > wsRateLimits[m.did].resetAt)
            => m.outcome # "rate_limited"]_vars

\* C24 witness: a sender was rejected, its window ended, and its next
\* message was accepted and acknowledged; the other socket saw no error frame.
C24_AcceptedAgainSeen ==
  /\ Len(msgs) > 1
  /\ LET j == Len(msgs)
         i == Len(msgs) - 1
     IN /\ msgs[i].conn = msgs[j].conn
        /\ msgs[i].outcome = "rate_limited"
        /\ msgs[j].outcome = "acked"
        /\ msgs[j].at > msgs[i].at + RATE_WINDOW_MS
        /\ \A c \in Conn \ {msgs[i].conn} : ErrorFrames(c) = {}
        /\ IsOpen(conns[msgs[i].did])

\* C27: the counter of a device never exceeds MESSAGE_RATE_LIMIT; a
\* rejected frame leaves it as it was; a frame arriving after the end of
\* the window sets the count to 1 and the end of the new window to
\* RATE_WINDOW_MS after its arrival; any other frame adds one to the count
\* and leaves the window.
C27_CounterBounded ==
  [][FrameArrives =>
       LET m == msgs'[Len(msgs')]
           e == wsRateLimits[m.did]
       IN /\ \A d \in Devices : wsRateLimits'[d].count <= MESSAGE_RATE_LIMIT
          /\ \A d \in Devices \ {m.did} : wsRateLimits'[d] = wsRateLimits[d]
          /\ wsRateLimits'[m.did] =
               IF e = NoEntry \/ now > e.resetAt
                 THEN [count |-> 1, resetAt |-> now + RATE_WINDOW_MS]
               ELSE IF m.outcome = "rate_limited" THEN e
               ELSE [count |-> e.count + 1, resetAt |-> e.resetAt]]_vars

\* C27 witness: after a rejection the window has ended and the latest
\* frame has opened a new one with count 1.
C27_WindowRestartSeen ==
  /\ Len(msgs) > MESSAGE_RATE_LIMIT
  /\ msgs[MESSAGE_RATE_LIMIT + 1].outcome = "rate_limited"
  /\ msgs[Len(msgs)].at > msgs[MESSAGE_RATE_LIMIT + 1].at
  /\ wsRateLimits[msgs[Len(msgs)].did] =
       [count |-> 1, resetAt |-> msgs[Len(msgs)].at + RATE_WINDOW_MS]

\* --------------------------------------------------------- reconnect
\* Socket k of the client sees its close event in this step.
ClosesNow(k) ==
  /\ k <= Len(client.socks)
  /\ client.socks[k] # "CLOSED"
  /\ client'.socks[k] = "CLOSED"

\* C25: the close of a socket with reason "replaced" schedules no
\* reconnect; the loss of the current socket of a mounted screen (1006)
\* schedules one, as long as reconnect attempts are left.
C25_ReplacedNeverReconnects ==
  [][\A k \in 1..MaxClientConns :
       ClosesNow(k) =>
         /\ client'.lastClose.reason = "replaced" =>
              /\ client'.timer = client.timer
              /\ client'.attempts = client.attempts
         /\ (/\ client'.lastClose.code = 1006
             /\ k = client.connId
             /\ ~client.stopped
             /\ client.attempts < maxReconnectAttempts) => client'.timer = k]_vars

C28_ClosedSocketRetriedOnce ==
  [][\A i \in 1..Len(msgs) :
       (/\ msgs[i].pc = "create"
        /\ msgs'[i].env # 0
        /\ msgs[i].tDev # ""
        /\ conns[msgs[i].tDev] # NoConn
        /\ ~IsOpen(conns[msgs[i].tDev]))
         => /\ msgs'[i].lookups = 2
            /\ ~msgs'[i].delivered
            /\ \E e \in store' : e.id = msgs'[i].env /\ ~e.deliveredAt
            /\ msgs'[i].outcome = "acked" =>
                 recv'[conns[msgs[i].did]][Len(recv'[conns[msgs[i].did]])].mode = "queued"]_vars

\* The i-th request carries a public key that is not 32 bytes long.
BadKey(i) ==
  \/ Len(http[i].idPub) # 32
  \/ Len(http[i].spPub) # 32
  \/ \E k \in 1..Len(http[i].otks) : Len(fromB64(http[i].otks[k])) # 32
\* The i-th request has stored an account, a device or a prekey.
Stored(i) ==
  \/ \E u \in user : u.id = NewUserIds[i]
  \/ \E d \in device : d.id = NewDeviceIds[i]
  \/ \E k \in 1..MaxOtkList : OtkId(i, k) \in DOMAIN otk

\* C21: a sign-up or login whose identity key, signed prekey or any one-time
\* prekey is not 32 bytes long is never answered with success and stores
\* nothing: no account, no device, no prekey.
C21_BadKeyStoresNothing ==
  \A i \in 1..Len(http) :
    (http[i].route \in {"signup", "login"} /\ BadKey(i)) =>
      /\ http[i].status \notin {200, 201}
      /\ ~Stored(i)

\* The i-th request is a device removal that takes a step now.
RemovalStep(i) ==
  /\ i \in 1..Len(http)
  /\ http[i].route = "removeDevice"
  /\ http'[i].pc # http[i].pc

\* C26: a device removal answered with success leaves no row of the device
\* and none of its one-time prekeys, and no step of a removal touches
\* another device or another device's prekeys.
C26_RemovalTakesOnlyTheDevice ==
  /\ [](\A i \in 1..Len(http) :
         (http[i].route = "removeDevice" /\ http[i].status = 200) =>
           /\ ~\E d \in device : d.id = http[i].target
           /\ PrekeysOf(http[i].target) = {})
  /\ [][\A i \in 1..MaxHttp + 1 :
          RemovalStep(i) =>
            /\ \A d \in device : d.id # http[i].target => d \in device'
            /\ device' \subseteq device
            /\ \A k \in DOMAIN otk :
                 otk[k].deviceId # http[i].target =>
                   k \in DOMAIN otk' /\ otk'[k] = otk[k]
            /\ DOMAIN otk' \subseteq DOMAIN otk]_vars

\* dB1 has removed dB2: the device and its prekey are gone, dB1 and its two
\* prekeys are still there.
C26_SiblingRemoved ==
  \E i \in 1..Len(http) :
    /\ http[i].route = "removeDevice" /\ http[i].status = 200
    /\ http[i].did = "dB1" /\ http[i].target = "dB2"
    /\ ~\E d \in device : d.id = "dB2"
    /\ \E d \in device : d.id = "dB1"
    /\ PrekeysOf("dB2") = {}
    /\ PrekeysOf("dB1") = {1, 2}

\* ---------------------------------------------------- envelope states
\* C31: deletion of an envelope is terminal: an envelope id that was given
\* out and is no longer in the store does not come back into the store, and
\* no delivered-envelope frame is written for it afterwards, by a push or by
\* a backlog replay.
C31_DeletionIsTerminal ==
  [][\A id \in 1..(nextId - 1) :
       ~HasRow(id) =>
         /\ \A e \in store' : e.id # id
         /\ \A c \in Conn : ~GetsPush(c, id)]_vars

\* ---------------------------------------------------------- teardown
\* The handler of message i can take its next step.
HandlerCanStep(i) ==
  \/ ENABLED MsgFindDevice(i)
  \/ ENABLED MsgFindUser(i)
  \/ ENABLED MsgCreate(i, TRUE)
  \/ ENABLED MsgUpdate(i)
  \/ ENABLED MsgDelete(i)

\* C32: a socket whose close handler has run is in no entry of the registry;
\* a registered socket that is not open is dropped from the registry by the
\* next keepalive run; a socket is only ever registered under its own device,
\* so a newer socket of the device takes the entry over; and a message
\* handler in flight is never held up, whatever the state of the sockets.
C32_TeardownReleasesEntry ==
  /\ [](\A c \in Conn :
          /\ readyState[c] = "CLOSED" => \A d \in Devices : conns[d] # c
          /\ \A d \in Devices : conns[d] = c => sub[c].did = d)
  /\ [](\A i \in 1..Len(msgs) : msgs[i].pc # "done" => HandlerCanStep(i))
  /\ [][Keepalive =>
          \A d \in Devices :
            (conns[d] # NoConn /\ readyState[conns[d]] # "OPEN") => conns'[d] = NoConn]_vars

\* C32 witness: the handler of a message to dB1 is waiting for the database
\* while the socket dB1 was registered with has been closed and released, an
\* earlier socket of dB1 having been replaced by it.
C32_InFlightTowardsClosed ==
  \E i \in 1..Len(msgs) : \E c1, c2 \in Conn :
    /\ msgs[i].pc = "create"
    /\ msgs[i].tDev = "dB1"
    /\ c1 < c2
    /\ sub[c1].did = "dB1" /\ sub[c2].did = "dB1"
    /\ readyState[c2] = "CLOSED"
    /\ conns["dB1"] = NoConn

\* ------------------------------------------------------ push ordering
\* Envelope id was pushed to socket c by the handler of a message that came
\* in on socket s.
PushedOn(c, id, s) ==
  /\ \E k \in 1..Len(recv[c]) :
       recv[c][k].kind = "env" /\ recv[c][k].via = "push" /\ recv[c][k].id = id
  /\ \E i \in 1..Len(msgs) : msgs[i].env = id /\ msgs[i].conn = s

C34_FramesReachOnlyAddressee ==
  \A c \in Conn : \A k \in 1..Len(recv[c]) :
    recv[c][k].kind = "env"
      => /\ recv[c][k].to = sub[c].did
         /\ \E i \in 1..Len(msgs) :
              /\ msgs[i].env = recv[c][k].id
              /\ \/ msgs[i].tDev = sub[c].did
                 \/ msgs[i].tDev = "" /\ msgs[i].tUser = sub[c].uid

\* C34 witness: an envelope addressed to the account bob and no device was
\* queued and then replayed to dB2 when it connected.
C34_AccountWideReplayed ==
  \E c \in Conn : \E k \in 1..Len(recv[c]) : \E i \in 1..Len(msgs) :
    /\ recv[c][k].kind = "env"
    /\ recv[c][k].via = "backlog"
    /\ msgs[i].env = recv[c][k].id
    /\ msgs[i].tDev = ""
    /\ msgs[i].tUser = "uB"
    /\ sub[c] = Token("dB2")

\* ---------------------------------------------------- sender identity
\* C35: the sender of an envelope is the device of the token of the socket
\* its frame came in on: the handler, the stored row and every
\* delivered-envelope frame of it name that device, whatever the frame says.
C35_SenderIsTokenDevice ==
  /\ \A i \in 1..Len(msgs) : msgs[i].did = sub[msgs[i].conn].did
  /\ \A e \in store : \E i \in 1..Len(msgs) :
       msgs[i].env = e.id /\ e.fromDeviceId = sub[msgs[i].conn].did
  /\ \A c \in Conn : \A k \in 1..Len(recv[c]) :
       recv[c][k].kind = "env"
         => \E i \in 1..Len(msgs) :
              msgs[i].env = recv[c][k].id /\ recv[c][k].from = sub[msgs[i].conn].did

\* C35 witness: dA sent a frame that names dB2 as its sender, and the frame
\* pushed to dB1 for it says it is from dA.
C35_SpoofedFromIgnored ==
  \E c \in Conn : \E k \in 1..Len(recv[c]) : \E i \in 1..Len(msgs) : \E f \in Frames :
    /\ f.to = msgs[i].to /\ f.from = "dB2"
    /\ sub[msgs[i].conn].did = "dA"
    /\ recv[c][k].kind = "env"
    /\ recv[c][k].id = msgs[i].env
    /\ recv[c][k].from = "dA"
    /\ sub[c].did = "dB1"

\* ------------------------------------------------ leaving the store
\* Envelope e is in the store before this step and not after it.
Leaves(e) == e \in store /\ \A x \in store' : x.id # e.id
\* A delivered-envelope frame is written to socket c in this step.
EnvFrameWritten(c) ==
  /\ Len(recv'[c]) = Len(recv[c]) + 1
  /\ recv'[c][Len(recv'[c])].kind = "env"

C37_WholeBacklogReplayed ==
  (readyState[1] = "OPEN")
    ~> \/ readyState[1] # "OPEN"
       \/ \A id \in 1..MaxBacklog :
            \E k \in 1..Len(recv[1]) : recv[1][k].kind = "env" /\ recv[1][k].id = id

\* ------------------------------------------------- rate-limit sweep
\* The limiter that is never swept, run over the arrivals a..b from the
\* verdict and map acc (the arrivals are taken in halves, the first half
\* evaluated before the second, to keep the evaluation shallow).
RECURSIVE UnsweptOver(_, _, _)
UnsweptOver(acc, a, b) ==
  IF a > b THEN acc
  ELSE IF a = b THEN checkRateLimit(acc.limits, msgs[a].did, msgs[a].at)
  ELSE LET mid  == (a + b) \div 2
           left == UnsweptOver(acc, a, mid)
       IN  IF left.ok \in BOOLEAN THEN UnsweptOver(left, mid + 1, b) ELSE left
\* The verdict on the latest arrival and the map after it.
Unswept ==
  UnsweptOver([ok |-> TRUE, limits |-> [d \in Devices |-> NoEntry]], 1, Len(msgs))

\* C38: a run of the sweep removes only entries whose window has elapsed;
\* the latest arrival is rejected exactly when the limiter that is never
\* swept rejects it after the same arrivals; and the two maps differ only in
\* entries the sweep removed, whose window has elapsed.
C38_SweepChangesNoVerdict ==
  /\ [][RateLimitCleanup =>
          \A d \in Devices :
            wsRateLimits'[d] # wsRateLimits[d] =>
              wsRateLimits'[d] = NoEntry /\ now > wsRateLimits[d].resetAt]_vars
  /\ [](LET u == Unswept IN
        /\ Len(msgs) > 0 => (msgs[Len(msgs)].outcome = "rate_limited" <=> ~u.ok)
        /\ \A d \in Devices :
             \/ wsRateLimits[d] = u.limits[d]
             \/ wsRateLimits[d] = NoEntry /\ now > u.limits[d].resetAt)

\* C38 witness: dA was rejected, its window elapsed, and the sweep has
\* removed its entry, which the limiter that is never swept still holds.
C38_SweptAfterRejection ==
  /\ wsRateLimits["dA"] = NoEntry
  /\ Unswept.limits["dA"].count = MESSAGE_RATE_LIMIT
  /\ \E i \in 1..Len(msgs) : msgs[i].outcome = "rate_limited"

\* ------------------------------------------------------ reconnect cap
\* C39: the attempt counter stays within 0..5; it falls only to 0, and only
\* when the current socket opens; the close of the current socket of a
\* running screen, other than the echo of its own close, adds one to the
\* counter and sets the reconnect timer while the counter is below 5, and at
\* 5 sets the status to 'offline' and sets no timer; the counter rises in no
\* other step; a reconnect is made only by the timer of the closed current
\* socket; the close of a socket that is not the current one changes neither
\* counter, timer nor status.
C39_ReconnectsCapped ==
  /\ [](client.attempts \in 0..maxReconnectAttempts)
  /\ [](client.timer # 0 => client.attempts >= 1)
  /\ [][/\ client'.attempts < client.attempts =>
             /\ client'.attempts = 0
             /\ client.socks[client.connId] = "CONNECTING"
             /\ client'.socks[client.connId] = "OPEN"
        /\ client'.attempts > client.attempts =>
             /\ client'.attempts = client.attempts + 1
             /\ ClosesNow(client.connId)
             /\ client'.timer = client.connId
        /\ (client'.connId # client.connId /\ client'.mounted = client.mounted) =>
             /\ client.timer = client.connId
             /\ client'.timer = 0
             /\ client.socks[client.connId] = "CLOSED"
             /\ client'.status = "reconnecting"
        /\ \A k \in 1..MaxClientConns :
             ClosesNow(k) =>
               IF k # client.connId
                 THEN /\ client'.attempts = client.attempts
                      /\ client'.timer = client.timer
                      /\ client'.status = client.status
                      /\ client'.connId = client.connId
               ELSE (~client.stopped /\ client'.lastClose.reason # "unmount") =>
                 IF client.attempts < maxReconnectAttempts
                   THEN /\ client'.attempts = client.attempts + 1
                        /\ client'.timer = k
                        /\ client'.status = "reconnecting"
                   ELSE /\ client'.attempts = client.attempts
                        /\ client'.timer = client.timer
                        /\ client.timer = 0
                        /\ client'.status = "offline"]_vars

\* C39 witness: the first socket and the five sockets of the reconnects have
\* all closed without one opening in between, and the screen is offline with
\* no timer set.
C39_OfflineAfterFive ==
  /\ client.mounted
  /\ client.status = "offline"
  /\ client.attempts = maxReconnectAttempts
  /\ client.timer = 0
  /\ client.connId = maxReconnectAttempts + 1
  /\ client.lastClose.sock = client.connId

\* ----------------------------------------------------- removal guards
\* The i-th request is a removal by a verified caller of the caller's own
\* current device.
RemovesOwn(i) ==
  /\ http[i].route = "removeDevice"
  /\ http[i].uid # ""
  /\ http[i].target = http[i].did
\* The i-th request is a removal by a verified caller of a device that
\* belongs to another account.
RemovesForeign(i) ==
  /\ http[i].route = "removeDevice"
  /\ http[i].uid # ""
  /\ \E d \in device : d.id = http[i].target /\ d.userId # http[i].uid

\* C40: a removal whose target is the caller's current device is answered
\* 400 at once; a removal whose target belongs to another account is
\* answered 404 and gets no further than the lookup of the target; no step
\* of either changes the device table or the prekey table.
C40_OwnAndForeignRefused ==
  /\ [](\A i \in 1..Len(http) :
         /\ RemovesOwn(i) => http[i].pc = "done" /\ http[i].status = 400
         /\ (RemovesForeign(i) /\ ~RemovesOwn(i)) =>
              \/ http[i].pc = "findDevice" /\ http[i].status = 0
              \/ http[i].pc = "done" /\ http[i].status = 404)
  /\ [][\A i \in 1..MaxHttp + 1 :
          (/\ i \in 1..Len(http')
           /\ http'[i].route = "removeDevice"
           /\ http'[i].uid # ""
           /\ \/ http'[i].target = http'[i].did
              \/ \E d \in device : d.id = http'[i].target /\ d.userId # http'[i].uid
           /\ i \in 1..Len(http) => http'[i] # http[i])
            => device' = device /\ otk' = otk]_vars

\* C40 witness: dB1 asked for its own removal and was answered 400, dB2
\* asked for the removal of dA and was answered 404, and every device and
\* prekey the relay started with is still there.
C40_BothRefused ==
  /\ \E i \in 1..Len(http) :
       RemovesOwn(i) /\ http[i].did = "dB1" /\ http[i].status = 400
  /\ \E i \in 1..Len(http) :
       RemovesForeign(i) /\ http[i].target = "dA" /\ http[i].status = 404
  /\ device = InitDevice
  /\ otk = InitOtk
====
